---------------------------- MODULE Spec2Model ----------------------------
(***************************************************************************)
(* Model of agents/shared/roster_excel_parser.py: the header normaliser,   *)
(* the alias resolver, the cell coercers, the two row parsers and the      *)
(* batch orchestrator (parse_roster_excel / parse_employee_excel) with the *)
(* row loop of read_excel that feeds it.                                   *)
(*                                                                         *)
(* Text is a tuple of Unicode code points.  S("abc") writes an ASCII text. *)
(* A cell value is a record [t, n, d, s] (see the section on cell values). *)
(***************************************************************************)
EXTENDS Integers, Sequences, FiniteSets, TLC

(***************************************************************************)
(* Text                                                                    *)
(***************************************************************************)

\* Printable ASCII without the backquote: codes 32..95 and 97..126.
AsciiLow == " !\"#$%&'(" \o ")" \o "*+,-./0123456789:;<=>?@ABCDEFGHIJKLMNOPQRSTUVWXYZ[\\]^_"

AsciiHigh == "abcdefghijklmnopqrstuvwxyz{|}~"

CodeOf(c) ==
    IF \E i \in 1..Len(AsciiLow) : SubSeq(AsciiLow, i, i) = c
    THEN 31 + (CHOOSE i \in 1..Len(AsciiLow) : SubSeq(AsciiLow, i, i) = c)
    ELSE 96 + (CHOOSE i \in 1..Len(AsciiHigh) : SubSeq(AsciiHigh, i, i) = c)

\* The text of an ASCII string.
RECURSIVE S(_)
S(str) == IF str = "" THEN <<>> ELSE <<CodeOf(SubSeq(str, 1, 1))>> \o S(SubSeq(str, 2, Len(str)))

\* str.isspace() / regex \s on the modelled alphabet: TAB LF VT FF CR, FS..US,
\* SPACE, NEL, NBSP, IDEOGRAPHIC SPACE.
IsSpace(c) == c \in {9, 10, 11, 12, 13, 28, 29, 30, 31, 32, 133, 160, 12288}

\* str.isdigit() / regex \d on the modelled alphabet: the ASCII digits and the
\* full-width digits U+FF10..U+FF19, which int() reads alike.
IsDigit(c) == (c >= 48 /\ c <= 57) \/ (c >= 65296 /\ c <= 65305)

DigitVal(c) == IF c <= 57 THEN c - 48 ELSE c - 65296

RECURSIVE LStrip(_)
LStrip(t) == IF t # <<>> /\ IsSpace(Head(t)) THEN LStrip(Tail(t)) ELSE t

RECURSIVE RStrip(_)
RStrip(t) ==
    IF t # <<>> /\ IsSpace(t[Len(t)]) THEN RStrip(SubSeq(t, 1, Len(t) - 1)) ELSE t

\* str.strip()
Strip(t) == RStrip(LStrip(t))

\* str.lower() on the modelled alphabet (ASCII letters; CJK has no case).
LowerChar(c) == IF c >= 65 /\ c <= 90 THEN c + 32 ELSE c

Lower(t) == [i \in 1..Len(t) |-> LowerChar(t[i])]

\* str.upper() on the modelled alphabet.
UpperChar(c) == IF c >= 97 /\ c <= 122 THEN c - 32 ELSE c

Upper(t) == [i \in 1..Len(t) |-> UpperChar(t[i])]

\* unicodedata.normalize("NFKC", .) on the modelled alphabet: the full-width
\* forms U+FF01..U+FF5E fold to ASCII, NBSP and IDEOGRAPHIC SPACE to SPACE;
\* ASCII and the CJK ideographs of the alias table are unchanged.
NfkcChar(c) ==
    IF c >= 65281 /\ c <= 65374 THEN c - 65248
    ELSE IF c = 12288 \/ c = 160 THEN 32
    ELSE c

Nfkc(t) == [i \in 1..Len(t) |-> NfkcChar(t[i])]

\* re.sub(r"\s+", " ", t)
RECURSIVE CollapseFrom(_, _)
CollapseFrom(t, i) ==
    IF i > Len(t) THEN <<>>
    ELSE IF IsSpace(t[i])
         THEN IF i > 1 /\ IsSpace(t[i - 1])
              THEN CollapseFrom(t, i + 1)
              ELSE <<32>> \o CollapseFrom(t, i + 1)
         ELSE <<t[i]>> \o CollapseFrom(t, i + 1)

CollapseWhitespace(t) == CollapseFrom(t, 1)

\* The character class [*#\-_.:：] of the noise substitution.
IsNoise(c) == c \in {42, 35, 45, 95, 46, 58, 65306}

\* re.sub(r"[*#\-_.:：]", " ", t)
ReplaceNoise(t) == [i \in 1..Len(t) |-> IF IsNoise(t[i]) THEN 32 ELSE t[i]]

(***************************************************************************)
(* Cell values                                                             *)
(*                                                                         *)
(* A raw cell value (openpyxl's cell.value) is a record [t, n, d, s]:      *)
(*   t = "none"                      None                                  *)
(*   t = "str",      s               a str (code points)                   *)
(*   t = "int",      n               an int                                *)
(*   t = "bool",     n \in {0,1}     a bool (a subclass of int in Python)  *)
(*   t = "float",    n, d            the float n/d for d > 0 (d a power of *)
(*                                   two, so that the arithmetic on it is  *)
(*                                   exact); d = 0: inf (n = 1),           *)
(*                                   -inf (n = -1), nan (n = 0)            *)
(*   t = "time",     d               datetime.time, d = seconds of the day *)
(*   t = "date",     n               datetime.date, n = yyyymmdd           *)
(*   t = "datetime", n, d            datetime.datetime, n = yyyymmdd,      *)
(*                                   d = seconds of the day                *)
(* Temporal values have whole seconds.  Optional[str] and Optional[int]    *)
(* results are cell values too (VNone, VStr, VInt).                        *)
(***************************************************************************)

VNone == [t |-> "none", n |-> 0, d |-> 0, s |-> <<>>]

VStr(s) == [t |-> "str", n |-> 0, d |-> 0, s |-> s]

VInt(n) == [t |-> "int", n |-> n, d |-> 0, s |-> <<>>]

VBool(b) == [t |-> "bool", n |-> IF b THEN 1 ELSE 0, d |-> 0, s |-> <<>>]

VFloat(n, d) == [t |-> "float", n |-> n, d |-> d, s |-> <<>>]

VTime(secs) == [t |-> "time", n |-> 0, d |-> secs, s |-> <<>>]

VDate(ymd) == [t |-> "date", n |-> ymd, d |-> 0, s |-> <<>>]

VDateTime(ymd, secs) == [t |-> "datetime", n |-> ymd, d |-> secs, s |-> <<>>]

FloatInf == VFloat(1, 0)

FloatNegInf == VFloat(-1, 0)

FloatNaN == VFloat(0, 0)

Abs(x) == IF x < 0 THEN 0 - x ELSE x

\* int(x) of the rational n/d: truncation toward zero.
TruncDiv(n, d) == IF n >= 0 THEN n \div d ELSE 0 - ((0 - n) \div d)

\* Decimal digits of a natural number.
RECURSIVE NatText(_)
NatText(n) == IF n < 10 THEN <<48 + n>> ELSE NatText(n \div 10) \o <<48 + (n % 10)>>

\* str(n) for an int.
IntText(n) == IF n < 0 THEN <<45>> \o NatText(0 - n) ELSE NatText(n)

\* n as exactly w digits, zero padded (n < 10^w).
RECURSIVE PadText(_, _)
PadText(n, w) == IF w = 0 THEN <<>> ELSE PadText(n \div 10, w - 1) \o <<48 + (n % 10)>>

\* The decimal expansion of the fraction r/d, 0 <= r < d, d a power of two.
RECURSIVE FracText(_, _)
FracText(r, d) ==
    IF r = 0 THEN <<>>
    ELSE <<48 + ((10 * r) \div d)>> \o FracText((10 * r) % d, d)

\* repr of a finite float n/d of moderate size: the exact decimal expansion,
\* which is the shortest one that round-trips.
FloatText(n, d) ==
    LET a == Abs(n)
        frac == FracText(a % d, d)
    IN  (IF n < 0 THEN <<45>> ELSE <<>>)
        \o NatText(a \div d) \o <<46>> \o (IF frac = <<>> THEN <<48>> ELSE frac)

\* str(datetime.date)
DateText(ymd) ==
    PadText(ymd \div 10000, 4) \o <<45>> \o PadText((ymd \div 100) % 100, 2)
    \o <<45>> \o PadText(ymd % 100, 2)

\* str(datetime.time)
TimeText(secs) ==
    PadText(secs \div 3600, 2) \o <<58>> \o PadText((secs \div 60) % 60, 2)
    \o <<58>> \o PadText(secs % 60, 2)

\* str(value) for a cell value that is not None.
PyStr(v) ==
    CASE v.t = "str" -> v.s
      [] v.t = "int" -> IntText(v.n)
      [] v.t = "bool" -> IF v.n = 1 THEN S("True") ELSE S("False")
      [] v.t = "float" ->
            IF v.d = 0
            THEN (IF v.n = 1 THEN S("inf") ELSE IF v.n = -1 THEN S("-inf") ELSE S("nan"))
            ELSE FloatText(v.n, v.d)
      [] v.t = "time" -> TimeText(v.d)
      [] v.t = "date" -> DateText(v.n)
      [] v.t = "datetime" -> DateText(v.n) \o <<32>> \o TimeText(v.d)
      [] OTHER -> S("None")

\* str(type(value))
TypeText(v) ==
    CASE v.t = "str" -> S("<class 'str'>")
      [] v.t = "int" -> S("<class 'int'>")
      [] v.t = "bool" -> S("<class 'bool'>")
      [] v.t = "float" -> S("<class 'float'>")
      [] v.t = "time" -> S("<class 'datetime.time'>")
      [] v.t = "date" -> S("<class 'datetime.date'>")
      [] v.t = "datetime" -> S("<class 'datetime.datetime'>")
      [] OTHER -> S("<class 'NoneType'>")

\* A text as an Optional[str]: None for the empty text.
TextOrNone(t) == IF t # <<>> THEN VStr(t) ELSE VNone

\* RosterExcelParser._get_cell_value: a str cell is stripped, "" becomes None.
get_cell_value(v) == IF v.t = "str" THEN TextOrNone(Strip(v.s)) ELSE v

\* RosterExcelParser._get_string
get_string(value) == IF value.t = "none" THEN VNone ELSE TextOrNone(Strip(PyStr(value)))

(***************************************************************************)
(* Results of the coercers: a value, or a raised exception with str(e).    *)
(***************************************************************************)

Return(v) == [exc |-> "none", msg |-> <<>>, v |-> v]

Raise(exc, msg) == [exc |-> exc, msg |-> msg, v |-> VNone]

(***************************************************************************)
(* Header normaliser and alias resolver                                    *)
(***************************************************************************)

\* The pipeline without the second whitespace collapse.
NormalizeTextUncollapsed(t) ==
    Strip(ReplaceNoise(CollapseWhitespace(Lower(Nfkc(t)))))

\* The pipeline of _normalize_header on a str: NFKC, lower case, whitespace
\* runs to one space, noise characters to spaces, whitespace runs again, strip.
NormalizeText(t) ==
    Strip(CollapseWhitespace(ReplaceNoise(CollapseWhitespace(Lower(Nfkc(t))))))

\* bool(value) is False ("not value"): None, "", 0, 0.0, False.  A time, a
\* date and a datetime are always true.
Falsy(v) ==
    \/ v.t = "none"
    \/ (v.t = "str" /\ v.s = <<>>)
    \/ (v.t \in {"int", "bool"} /\ v.n = 0)
    \/ (v.t = "float" /\ v.d # 0 /\ v.n = 0)

\* type(value).__name__ as the TypeError of unicodedata.normalize prints it.
TypeName(v) ==
    CASE v.t = "time" -> S("datetime.time")
      [] v.t = "date" -> S("datetime.date")
      [] v.t = "datetime" -> S("datetime.datetime")
      [] v.t = "none" -> S("NoneType")
      [] OTHER -> S(v.t)

\* RosterExcelParser._normalize_header.  The header is a dictionary key of a
\* row: a str, or whatever else the header cell held; unicodedata.normalize
\* raises TypeError for a key that is not a str.
normalize_header(header) ==
    IF Falsy(header) THEN Return(VStr(<<>>))
    ELSE IF header.t # "str"
    THEN Raise("TypeError", S("normalize() argument 2 must be str, not ") \o TypeName(header))
    ELSE Return(VStr(NormalizeText(header.s)))

\* The alias table with "Email" listed for employee_email as well as for email.
HEADER_ALIASES_SHARED ==
    << <<"employee_email", << S("employee email"), S("employee_email"), <<21592, 24037, 37038, 31665>>, S("staff email"), S("worker email"), S("Email") >> >>,
       <<"employee_number", << S("employee number"), S("employee_number"), S("emp number"), S("emp_number"), S("employee id"), S("employee_id"), <<21592, 24037, 32534, 21495>>, S("staff number") >> >>,
       <<"employee_name", << S("employee name"), S("employee_name"), <<21592, 24037, 22995, 21517>>, S("staff name"), S("worker name") >> >>,
       <<"date", << S("date"), S("shift date"), S("shift_date"), <<26085, 26399>> >> >>,
       <<"start_time", << S("start time"), S("start_time"), S("start"), <<24320, 22987, 26102, 38388>> >> >>,
       <<"end_time", << S("end time"), S("end_time"), S("end"), S("finish time"), S("finish_time"), <<32467, 26463, 26102, 38388>> >> >>,
       <<"has_meal_break", << S("has meal break"), S("has_meal_break"), S("meal break"), S("meal_break") >> >>,
       <<"meal_break_duration", << S("meal break duration"), S("meal_break_duration"), S("meal break mins"), S("meal_break_mins") >> >>,
       <<"has_rest_breaks", << S("has rest breaks"), S("has_rest_breaks"), S("rest breaks"), S("rest_breaks") >> >>,
       <<"rest_breaks_duration", << S("rest breaks duration"), S("rest_breaks_duration"), S("rest break mins"), S("rest_break_mins") >> >>,
       <<"is_public_holiday", << S("is public holiday"), S("is_public_holiday"), S("public holiday"), S("public_holiday") >> >>,
       <<"public_holiday_name", << S("public holiday name"), S("public_holiday_name"), S("holiday name"), S("holiday_name") >> >>,
       <<"is_on_call", << S("is on call"), S("is_on_call"), S("on call"), S("on_call") >> >>,
       <<"location", << S("location"), S("work location"), S("work_location"), <<22320, 28857>> >> >>,
       <<"notes", << S("notes"), S("note"), S("comments"), S("comment"), <<22791, 27880>> >> >>,
       <<"name", << S("name"), <<22995, 21517>>, S("full name") >> >>,
       <<"email", << S("email"), S("e-mail"), <<37038, 31665>>, S("mail") >> >>,
       <<"role", << S("role"), S("position"), S("title"), <<32844, 20301>>, S("job title") >> >>,
       <<"department", << S("department"), S("dept"), <<37096, 38376>> >> >>,
       <<"start_date", << S("start date"), S("start_date"), S("hire date"), S("hire_date"), <<20837, 32844, 26085, 26399>> >> >> >>

\* RosterExcelParser.HEADER_ALIASES, in declaration order.
HEADER_ALIASES ==
    << <<"employee_email", << S("employee email"), S("employee_email"), <<21592, 24037, 37038, 31665>>, S("staff email"), S("worker email") >> >>,
       <<"employee_number", << S("employee number"), S("employee_number"), S("emp number"), S("emp_number"), S("employee id"), S("employee_id"), <<21592, 24037, 32534, 21495>>, S("staff number") >> >>,
       <<"employee_name", << S("employee name"), S("employee_name"), <<21592, 24037, 22995, 21517>>, S("staff name"), S("worker name") >> >>,
       <<"date", << S("date"), S("shift date"), S("shift_date"), <<26085, 26399>> >> >>,
       <<"start_time", << S("start time"), S("start_time"), S("start"), <<24320, 22987, 26102, 38388>> >> >>,
       <<"end_time", << S("end time"), S("end_time"), S("end"), S("finish time"), S("finish_time"), <<32467, 26463, 26102, 38388>> >> >>,
       <<"has_meal_break", << S("has meal break"), S("has_meal_break"), S("meal break"), S("meal_break") >> >>,
       <<"meal_break_duration", << S("meal break duration"), S("meal_break_duration"), S("meal break mins"), S("meal_break_mins") >> >>,
       <<"has_rest_breaks", << S("has rest breaks"), S("has_rest_breaks"), S("rest breaks"), S("rest_breaks") >> >>,
       <<"rest_breaks_duration", << S("rest breaks duration"), S("rest_breaks_duration"), S("rest break mins"), S("rest_break_mins") >> >>,
       <<"is_public_holiday", << S("is public holiday"), S("is_public_holiday"), S("public holiday"), S("public_holiday") >> >>,
       <<"public_holiday_name", << S("public holiday name"), S("public_holiday_name"), S("holiday name"), S("holiday_name") >> >>,
       <<"is_on_call", << S("is on call"), S("is_on_call"), S("on call"), S("on_call") >> >>,
       <<"location", << S("location"), S("work location"), S("work_location"), <<22320, 28857>> >> >>,
       <<"notes", << S("notes"), S("note"), S("comments"), S("comment"), <<22791, 27880>> >> >>,
       <<"name", << S("name"), <<22995, 21517>>, S("full name") >> >>,
       <<"email", << S("email"), S("e-mail"), <<37038, 31665>>, S("mail") >> >>,
       <<"role", << S("role"), S("position"), S("title"), <<32844, 20301>>, S("job title") >> >>,
       <<"department", << S("department"), S("dept"), <<37096, 38376>> >> >>,
       <<"start_date", << S("start date"), S("start_date"), S("hire date"), S("hire_date"), <<20837, 32844, 26085, 26399>> >> >> >>

\* The canonical field names the row parsers read, as texts.
Field ==
    [employee_email |-> S("employee_email"), employee_number |-> S("employee_number"),
     employee_name |-> S("employee_name"), date |-> S("date"), start_time |-> S("start_time"),
     end_time |-> S("end_time"), has_meal_break |-> S("has_meal_break"),
     meal_break_duration |-> S("meal_break_duration"), has_rest_breaks |-> S("has_rest_breaks"),
     rest_breaks_duration |-> S("rest_breaks_duration"),
     is_public_holiday |-> S("is_public_holiday"),
     public_holiday_name |-> S("public_holiday_name"), is_on_call |-> S("is_on_call"),
     location |-> S("location"), notes |-> S("notes"), name |-> S("name"), email |-> S("email"),
     role |-> S("role"), department |-> S("department"), start_date |-> S("start_date")]

\* RosterExcelParser.ROSTER_REQUIRED_KEYS
ROSTER_REQUIRED_KEYS == <<"employee_email", "date", "start_time", "end_time">>

\* RosterExcelParser.EMPLOYEE_REQUIRED_KEYS
EMPLOYEE_REQUIRED_KEYS == <<"name", "email", "role">>

\* The assignments of RosterExcelParser.__init__,
\* self._alias_to_canonical[normalize(alias)] = canonical, for every
\* canonical field in declaration order and every alias of it:
\* <<normalised alias, position of the field in HEADER_ALIASES, canonical>>.
AliasAssignments ==
    UNION {{<<normalize_header(VStr(f[2][2][j])).v.s, f[1], S(f[2][1])>> : j \in 1..Len(f[2][2])} :
              f \in {<<c, HEADER_ALIASES[c]>> : c \in 1..Len(HEADER_ALIASES)}}

\* The dict the assignments leave: a later assignment to the same key
\* replaces the earlier one.
AliasMapOf(assigned) ==
    [k \in {p[1] : p \in assigned} |->
        (CHOOSE p \in assigned : p[1] = k /\ \A q \in assigned : q[1] = k => q[2] <= p[2])[3]]

\* self._alias_to_canonical after RosterExcelParser.__init__.
BuildAliasMap == AliasMapOf(AliasAssignments)

(***************************************************************************)
(* datetime.strptime, for the formats the coercers use: directives         *)
(* separated by one literal character.  The compiled regular expression    *)
(* matches a prefix and strptime then refuses unconverted data, so the     *)
(* text must split at the separator into exactly one field per directive,  *)
(* each field matching its directive's pattern in full.                    *)
(***************************************************************************)

\* The fields of t between the occurrences of the character sep.
RECURSIVE SplitFrom(_, _, _, _)
SplitFrom(t, sep, i, start) ==
    IF i > Len(t) THEN << SubSeq(t, start, Len(t)) >>
    ELSE IF t[i] = sep
         THEN << SubSeq(t, start, i - 1) >> \o SplitFrom(t, sep, i + 1, i + 1)
         ELSE SplitFrom(t, sep, i + 1, start)

Split(t, sep) == SplitFrom(t, sep, 1, 1)

AllDigits(f) == f # <<>> /\ \A i \in 1..Len(f) : IsDigit(f[i])

\* int(f) for a text of digits.
RECURSIVE Num(_)
Num(f) == IF f = <<>> THEN 0 ELSE 10 * Num(SubSeq(f, 1, Len(f) - 1)) + DigitVal(f[Len(f)])

\* The ASCII digit range [lo-hi] of a pattern (\d also takes full-width digits).
InRange(c, lo, hi) == c >= 48 + lo /\ c <= 48 + hi

\* A field of two characters matching [a1-b1][a2-b2] or [a1-b1]\d.
Two(f, a1, b1, a2, b2, anyDigit) ==
    /\ Len(f) = 2
    /\ InRange(f[1], a1, b1)
    /\ IF anyDigit THEN IsDigit(f[2]) ELSE InRange(f[2], a2, b2)

\* A field of one character matching [a-b] or \d.
One(f, a, b, anyDigit) ==
    Len(f) = 1 /\ (IF anyDigit THEN IsDigit(f[1]) ELSE InRange(f[1], a, b))

\* The field matches the directive's pattern in full:
\*   %Y \d\d\d\d          %m, %I 1[0-2]|0[1-9]|[1-9]
\*   %d 3[0-1]|[1-2]\d|0[1-9]|[1-9]| [1-9]
\*   %H 2[0-3]|[0-1]\d|\d   %M [0-5]\d|\d   %S 6[0-1]|[0-5]\d|\d
DirectiveMatches(dir, f) ==
    CASE dir = "Y" -> Len(f) = 4 /\ AllDigits(f)
      [] dir \in {"m", "I"} ->
            Two(f, 1, 1, 0, 2, FALSE) \/ Two(f, 0, 0, 1, 9, FALSE) \/ One(f, 1, 9, FALSE)
      [] dir = "d" ->
            \/ Two(f, 3, 3, 0, 1, FALSE) \/ Two(f, 1, 2, 0, 9, TRUE)
            \/ Two(f, 0, 0, 1, 9, FALSE) \/ One(f, 1, 9, FALSE)
            \/ (Len(f) = 2 /\ f[1] = 32 /\ InRange(f[2], 1, 9))
      [] dir = "H" ->
            Two(f, 2, 2, 0, 3, FALSE) \/ Two(f, 0, 1, 0, 9, TRUE) \/ One(f, 0, 9, TRUE)
      [] dir = "M" -> Two(f, 0, 5, 0, 9, TRUE) \/ One(f, 0, 9, TRUE)
      [] dir = "S" ->
            Two(f, 6, 6, 0, 1, FALSE) \/ Two(f, 0, 5, 0, 9, TRUE) \/ One(f, 0, 9, TRUE)
      [] OTHER -> FALSE

\* The value a directive reads from a field, int(field), or -1 when its
\* pattern does not match.
Directive(dir, f) ==
    IF ~DirectiveMatches(dir, f) THEN -1
    ELSE IF f[1] = 32 THEN DigitVal(f[2])
    ELSE Num(f)

IsLeap(y) == (y % 4 = 0 /\ y % 100 # 0) \/ y % 400 = 0

DaysInMonth(y, m) ==
    IF m = 2 THEN (IF IsLeap(y) THEN 29 ELSE 28)
    ELSE IF m \in {4, 6, 9, 11} THEN 30 ELSE 31

\* datetime.date(y, m, d) accepts the triple.
ValidDate(y, m, d) == y >= 1 /\ y <= 9999 /\ m >= 1 /\ m <= 12 /\ d >= 1 /\ d <= DaysInMonth(y, m)

\* The date of the values v1, v2, v3 read by the directives dirs, in their
\* order: yyyymmdd, or -1 for ValueError.
DateOfValues(dirs, v1, v2, v3) ==
    LET val(dir) == IF dirs[1] = dir THEN v1 ELSE IF dirs[2] = dir THEN v2 ELSE v3
    IN  IF v1 < 0 \/ v2 < 0 \/ v3 < 0 THEN -1
        ELSE IF ~ValidDate(val("Y"), val("m"), val("d")) THEN -1
        ELSE val("Y") * 10000 + val("m") * 100 + val("d")

DateOfFields(dirs, fields) ==
    IF Len(fields) # 3 THEN -1
    ELSE DateOfValues(dirs, Directive(dirs[1], fields[1]), Directive(dirs[2], fields[2]),
                      Directive(dirs[3], fields[3]))

\* datetime.strptime(text, fmt).date() for fmt = <<directives, separator>>:
\* yyyymmdd, or -1 for ValueError.
StrpDate(text, fmt) == DateOfFields(fmt[1], Split(text, fmt[2]))

\* The list with %m/%d/%Y tried before %d/%m/%Y.
DATE_FORMATS_MONTH_FIRST ==
    << << <<"Y", "m", "d">>, 45 >>, << <<"m", "d", "Y">>, 47 >>,
       << <<"d", "m", "Y">>, 47 >>, << <<"d", "m", "Y">>, 45 >>,
       << <<"Y", "m", "d">>, 47 >>, << <<"d", "m", "Y">>, 46 >> >>

\* The list `formats` of _parse_date, in order:
\* %Y-%m-%d  %d/%m/%Y  %m/%d/%Y  %d-%m-%Y  %Y/%m/%d  %d.%m.%Y
\* The list `formats` of _parse_date, in order:
\* %Y-%m-%d  %d/%m/%Y  %m/%d/%Y  %d-%m-%Y  %Y/%m/%d  %d.%m.%Y
DATE_FORMATS ==
    << << <<"Y", "m", "d">>, 45 >>, << <<"d", "m", "Y">>, 47 >>,
       << <<"m", "d", "Y">>, 47 >>, << <<"d", "m", "Y">>, 45 >>,
       << <<"Y", "m", "d">>, 47 >>, << <<"d", "m", "Y">>, 46 >> >>

\* The loop over the formats: the result of the first format that parses,
\* given the text and each format's result.
FirstDate(text, results) ==
    IF \E k \in 1..Len(results) : results[k] >= 0
    THEN Return(VDate(results[CHOOSE k \in 1..Len(results) :
                                 results[k] >= 0 /\ \A k2 \in 1..(k - 1) : results[k2] < 0]))
    ELSE Raise("ValueError", S("Unable to parse date: ") \o text)

\* The str branch of _parse_date, on the stripped text.
ParseDateText(text) ==
    IF text = <<>> THEN Return(VNone)
    ELSE FirstDate(text, [k \in 1..Len(DATE_FORMATS) |-> StrpDate(text, DATE_FORMATS[k])])

\* RosterExcelParser._parse_date
parse_date(value) ==
    CASE value.t = "none" -> Return(VNone)
      [] value.t = "datetime" -> Return(VDate(value.n))
      [] value.t = "date" -> Return(value)
      [] value.t = "str" -> ParseDateText(Strip(value.s))
      [] OTHER -> Raise("ValueError", S("Invalid date type: ") \o TypeText(value))

(***************************************************************************)
(* Time coercion                                                           *)
(***************************************************************************)

\* Membership of a character in one of the classes of the range pattern:
\* [:\d], \s, and [-~～–—to] under re.IGNORECASE.
InClass(cls, c) ==
    CASE cls = "colon_digit" -> c = 58 \/ IsDigit(c)
      [] cls = "space" -> IsSpace(c)
      [] cls = "join" -> c \in {45, 126, 65374, 8211, 8212, 116, 111, 84, 79}
      [] OTHER -> FALSE

\* The first index >= i of t whose character is not in the class (Len(t)+1
\* when there is none): where a greedy class* starting at i stops.
RECURSIVE SkipWhile(_, _, _)
SkipWhile(t, i, cls) ==
    IF i <= Len(t) /\ InClass(cls, t[i]) THEN SkipWhile(t, i + 1, cls) ELSE i

\* The range pattern matches at i, given where its joining class starts (b)
\* and stops (c).
TimeRangeJoined(t, i, b, c) ==
    IsDigit(t[i]) /\ c > b /\ SkipWhile(t, c, "space") <= Len(t)
    /\ IsDigit(t[SkipWhile(t, c, "space")])

TimeRangeFrom(t, i, b) == TimeRangeJoined(t, i, b, SkipWhile(t, b, "join"))

\* re.search(r'\d{1,2}[:\d]*\s*[-~～–—to]+\s*\d{1,2}', t, re.IGNORECASE)
\* matches at i.  Each starred class is disjoint from the class that must
\* follow it, so the greedy scan from a start digit decides the match.
TimeRangeAt(t, i) ==
    TimeRangeFrom(t, i, SkipWhile(t, SkipWhile(t, i + 1, "colon_digit"), "space"))

HasTimeRange(t) == \E i \in 1..Len(t) : TimeRangeAt(t, i)

\* pat in t, for a two-character pat.
Contains2(t, pat) == \E i \in 1..(Len(t) - 1) : t[i] = pat[1] /\ t[i + 1] = pat[2]

\* t.replace(pat, "") for a two-character pat.
RECURSIVE Remove2From(_, _, _)
Remove2From(t, pat, i) ==
    IF i > Len(t) THEN <<>>
    ELSE IF i < Len(t) /\ t[i] = pat[1] /\ t[i + 1] = pat[2]
         THEN Remove2From(t, pat, i + 2)
         ELSE <<t[i]>> \o Remove2From(t, pat, i + 1)

Remove2(t, pat) == Remove2From(t, pat, 1)

\* The list `formats` of _parse_time, in order: %H:%M:%S  %H:%M  %I:%M:%S  %I:%M
TIME_FORMATS ==
    << <<"H", "M", "S">>, <<"H", "M">>, <<"I", "M", "S">>, <<"I", "M">> >>

\* The time of the values read by the directives of fmt: seconds of the
\* day, or -1 for ValueError.  %I without %p reads 12 as hour 0; a second
\* of 60 or 61 passes the pattern and is refused by the datetime constructor.
TimeOfValues(fmt, hour, minute, second) ==
    IF hour < 0 \/ minute < 0 \/ second < 0 \/ second > 59 THEN -1
    ELSE (IF fmt[1] = "I" /\ hour = 12 THEN 0 ELSE hour) * 3600 + minute * 60 + second

TimeOfFields(fmt, fields) ==
    IF Len(fields) # Len(fmt) THEN -1
    ELSE TimeOfValues(fmt, Directive(fmt[1], fields[1]), Directive(fmt[2], fields[2]),
                      IF Len(fmt) = 3 THEN Directive(fmt[3], fields[3]) ELSE 0)

\* datetime.strptime(text, fmt).time() as seconds of the day, or -1 for
\* ValueError.
StrpTime(text, fmt) == TimeOfFields(fmt, Split(text, 58))

\* The adjustment without the 12 AM case.
AdjustAmPmNoMidnight(secs, is_pm, is_am) ==
    IF is_pm /\ secs \div 3600 < 12 THEN secs + 12 * 3600 ELSE secs

\* The AM/PM adjustment of a parsed time, on seconds of the day.
AdjustAmPm(secs, is_pm, is_am) ==
    IF is_pm /\ secs \div 3600 < 12 THEN secs + 12 * 3600
    ELSE IF is_am /\ secs \div 3600 = 12 THEN secs - 12 * 3600
    ELSE secs

\* The AM/PM adjustment of an hour-only value.
AdjustHour(hour, is_pm, is_am) ==
    IF is_pm /\ hour < 12 THEN hour + 12
    ELSE IF is_am /\ hour = 12 THEN 0
    ELSE hour

\* The loop over the formats: the adjusted result of the first format that
\* parses, given the value and each format's result.
FirstTime(value, results, is_pm, is_am) ==
    IF \E k \in 1..Len(results) : results[k] >= 0
    THEN Return(VTime(AdjustAmPm(
             results[CHOOSE k \in 1..Len(results) :
                        results[k] >= 0 /\ \A k2 \in 1..(k - 1) : results[k2] < 0],
             is_pm, is_am)))
    ELSE Raise("ValueError", S("Unable to parse time: ") \o value)

\* _parse_time on the upper-cased text without its AM and PM.
ParseTimeValue(value, is_pm, is_am) ==
    IF AllDigits(value) /\ AdjustHour(Num(value), is_pm, is_am) >= 0
       /\ AdjustHour(Num(value), is_pm, is_am) <= 23
    THEN Return(VTime(AdjustHour(Num(value), is_pm, is_am) * 3600))
    ELSE FirstTime(value, [k \in 1..Len(TIME_FORMATS) |-> StrpTime(value, TIME_FORMATS[k])],
                   is_pm, is_am)

\* _parse_time on the upper-cased text.
ParseTimeUpper(upper) ==
    ParseTimeValue(Strip(Remove2(Remove2(upper, S("AM")), S("PM"))),
                   Contains2(upper, S("PM")), Contains2(upper, S("AM")))

\* The str branch of _parse_time, on the stripped text.
ParseTimeText(value_stripped) ==
    IF value_stripped = <<>> THEN Return(VNone)
    ELSE IF HasTimeRange(value_stripped)
    THEN Raise("ValueError",
               S("Time range detected: '") \o value_stripped
               \o S("'. Please use separate 'Start Time' and 'End Time' columns."))
    ELSE ParseTimeUpper(Upper(value_stripped))

\* int(value * 24 * 60 * 60) for the number n/d.
TotalSeconds(n, d) == TruncDiv(n * 24 * 60 * 60, d)

\* The time of day of a count of seconds; // and % floor.
TimeOfSeconds(total_seconds) ==
    Return(VTime(((total_seconds \div 3600) % 24) * 3600
                 + ((total_seconds % 3600) \div 60) * 60 + (total_seconds % 60)))

\* RosterExcelParser._parse_time
parse_time(value) ==
    CASE value.t = "none" -> Return(VNone)
      [] value.t = "time" -> Return(value)
      [] value.t = "datetime" -> Return(VTime(value.d))
      [] value.t \in {"int", "bool"} -> TimeOfSeconds(TotalSeconds(value.n, 1))
      [] value.t = "float" ->
            IF value.d # 0 THEN TimeOfSeconds(TotalSeconds(value.n, value.d))
            ELSE IF value.n = 0
            THEN Raise("ValueError", S("cannot convert float NaN to integer"))
            ELSE Raise("OverflowError", S("cannot convert float infinity to integer"))
      [] value.t = "str" -> ParseTimeText(Strip(value.s))
      [] OTHER -> Raise("ValueError", S("Invalid time type: ") \o TypeText(value))

(***************************************************************************)
(* Boolean and integer coercion                                            *)
(***************************************************************************)

\* The affirmative texts of _parse_boolean.
TRUE_TEXTS == {S("true"), S("yes"), S("y"), S("1"), S("on")}

\* RosterExcelParser._parse_boolean
parse_boolean(value) ==
    CASE value.t = "none" -> FALSE
      [] value.t = "bool" -> value.n = 1
      [] value.t = "int" -> value.n # 0
      [] value.t = "float" -> value.d = 0 \/ value.n # 0
      [] value.t = "str" -> Lower(Strip(value.s)) \in TRUE_TEXTS
      [] OTHER -> FALSE

RECURSIVE Pow10(_)
Pow10(k) == IF k = 0 THEN 1 ELSE 10 * Pow10(k - 1)

\* An underscore of a numeric literal must stand between two digits.
UnderscoresOk(t) ==
    \A i \in 1..Len(t) :
        t[i] = 95 => i > 1 /\ i < Len(t) /\ IsDigit(t[i - 1]) /\ IsDigit(t[i + 1])

RECURSIVE DropUnderscores(_)
DropUnderscores(t) ==
    IF t = <<>> THEN <<>>
    ELSE IF Head(t) = 95 THEN DropUnderscores(Tail(t))
    ELSE <<Head(t)>> \o DropUnderscores(Tail(t))

\* A text of digits, possibly empty.
DigitsOrEmpty(f) == \A i \in 1..Len(f) : IsDigit(f[i])

\* A text of zeros, possibly empty.
AllZeros(f) == \A i \in 1..Len(f) : DigitVal(f[i]) = 0

\* The largest decimal exponent of a finite float, and the smallest of a
\* nonzero one: sys.float_info.max is 1.797...e308, the least subnormal 4.9e-324.
FloatMaxExp10 == 308

FloatMinExp10 == -324

\* The float of a nonzero decimal literal: its digits, the lengths of its
\* integer and fraction parts, and its exponent.  The value is kept exact
\* (n over a power of ten); a literal above the float range is inf and one
\* below it is 0.0.
FloatOfDigits(digits, lenIp, lenFp, exVal, neg) ==
    LET lead == CHOOSE i \in 1..Len(digits) :
                    DigitVal(digits[i]) # 0 /\ \A j \in 1..(i - 1) : DigitVal(digits[j]) = 0
        sgn(n) == IF neg THEN 0 - n ELSE n
    IN  IF lenIp - lead + exVal > FloatMaxExp10 THEN (IF neg THEN FloatNegInf ELSE FloatInf)
        ELSE IF lenIp - lead + exVal < FloatMinExp10 THEN VFloat(0, 1)
        ELSE IF exVal - lenFp >= 0 THEN VFloat(sgn(Num(digits) * Pow10(exVal - lenFp)), 1)
        ELSE VFloat(sgn(Num(digits)), Pow10(lenFp - exVal))

\* The float of a literal with integer part ip, fraction part fp and, when
\* hasExp, the exponent ex; VNone when it is not well formed.
FloatOfFields(ip, fp, hasExp, ex, neg) ==
    IF ~(/\ DigitsOrEmpty(ip) /\ DigitsOrEmpty(fp) /\ ip \o fp # <<>>
         /\ hasExp => AllDigits(IF ex # <<>> /\ ex[1] \in {43, 45} THEN Tail(ex) ELSE ex))
    THEN VNone
    ELSE IF AllZeros(ip \o fp) THEN VFloat(0, 1)
    ELSE FloatOfDigits(ip \o fp, Len(ip), Len(fp),
                       IF ~hasExp THEN 0
                       ELSE IF ex[1] = 45 THEN 0 - Num(Tail(ex))
                       ELSE IF ex[1] = 43 THEN Num(Tail(ex))
                       ELSE Num(ex),
                       neg)

FloatOfMantissa(mant, hasExp, ex, neg) ==
    IF Len(mant) > 2 THEN VNone
    ELSE FloatOfFields(mant[1], IF Len(mant) = 2 THEN mant[2] ELSE <<>>, hasExp, ex, neg)

FloatOfParts(parts, neg) ==
    IF Len(parts) > 2 THEN VNone
    ELSE FloatOfMantissa(Split(parts[1], 46), Len(parts) = 2,
                         IF Len(parts) = 2 THEN parts[2] ELSE <<>>, neg)

\* The float of the lower-cased text after its sign.
FloatOfBody(body, neg) ==
    IF body \in {S("inf"), S("infinity")} THEN (IF neg THEN FloatNegInf ELSE FloatInf)
    ELSE IF body = S("nan") THEN FloatNaN
    ELSE IF ~UnderscoresOk(body) THEN VNone
    ELSE FloatOfParts(Split(DropUnderscores(body), 101), neg)

FloatOfStripped(t) ==
    FloatOfBody(IF t # <<>> /\ t[1] \in {43, 45} THEN Tail(t) ELSE t, t # <<>> /\ t[1] = 45)

\* float(text) for a str: a float cell value, or VNone for ValueError.
\* Grammar: [sign] (inf | infinity | nan | digits [. [digits]] | . digits)
\* [e [sign] digits], case-insensitive, surrounding whitespace ignored, an
\* underscore allowed between two digits.
PyFloat(text) == FloatOfStripped(Lower(Strip(text)))

\* int(x) for a float cell value.
IntOfFloat(f) ==
    IF f.d # 0 THEN Return(VInt(TruncDiv(f.n, f.d)))
    ELSE IF f.n = 0 THEN Raise("ValueError", S("cannot convert float NaN to integer"))
    ELSE Raise("OverflowError", S("cannot convert float infinity to integer"))

\* int(float(text)) under "except ValueError: return None", given float(text).
IntOfParsed(f) ==
    IF f.t = "none" \/ IntOfFloat(f).exc = "ValueError" THEN Return(VNone) ELSE IntOfFloat(f)

\* The str branch of _parse_int, on the stripped text.
ParseIntText(text) == IF text = <<>> THEN Return(VNone) ELSE IntOfParsed(PyFloat(text))

\* RosterExcelParser._parse_int.  isinstance(value, int) holds for a bool,
\* which is returned as it is; the str branch catches ValueError only.
parse_int(value) ==
    CASE value.t = "none" -> Return(VNone)
      [] value.t \in {"int", "bool"} -> Return(value)
      [] value.t = "float" -> IntOfFloat(value)
      [] value.t = "str" -> ParseIntText(Strip(value.s))
      [] OTHER -> Return(VNone)

(***************************************************************************)
(* Email syntax: pydantic's EmailStr, which validates with the             *)
(* email_validator package (check_deliverability off).  The library is not *)
(* part of the repository; its rules are modelled for ASCII addresses:     *)
(* an optional display form "Name <addr>", one @, a dot-atom local part of *)
(* at most 64 characters, a dotted domain of letter-digit-hyphen labels    *)
(* that ends in a letter and is not a special-use name.  The validated     *)
(* value is the address with its domain in lower case.                     *)
(***************************************************************************)

IsAlnum(c) == (c >= 48 /\ c <= 57) \/ (c >= 65 /\ c <= 90) \/ (c >= 97 /\ c <= 122)

\* atext of RFC 5322: alphanumerics and !#$%&'*+-/=?^_`{|}~
IsAtext(c) ==
    IsAlnum(c) \/ c \in {33, 35, 36, 37, 38, 39, 42, 43, 45, 47, 61, 63, 94, 95, 96, 123, 124, 125, 126}

Positions(t, c) == {i \in 1..Len(t) : t[i] = c}

\* A dot-atom: atext runs separated by single dots.
IsDotAtom(t) ==
    /\ t # <<>>
    /\ \A i \in 1..Len(t) : IsAtext(t[i]) \/ t[i] = 46
    /\ t[1] # 46 /\ t[Len(t)] # 46
    /\ \A i \in 1..(Len(t) - 1) : ~(t[i] = 46 /\ t[i + 1] = 46)

IsLabel(l) ==
    /\ l # <<>> /\ Len(l) <= 63
    /\ \A i \in 1..Len(l) : IsAlnum(l[i]) \/ l[i] = 45
    /\ l[1] # 45 /\ l[Len(l)] # 45

SPECIAL_USE_DOMAINS == {S("arpa"), S("invalid"), S("local"), S("localhost"), S("onion"), S("test")}

\* The labels of a domain are valid and the last is a possible top level.
ValidLabels(labels) ==
    /\ Len(labels) >= 2
    /\ \A k \in 1..Len(labels) : IsLabel(labels[k])
    /\ ~IsDigit(labels[Len(labels)][Len(labels[Len(labels)])])
    /\ labels[Len(labels)] \notin SPECIAL_USE_DOMAINS

IsDomain(t) == t # <<>> /\ Len(t) <= 253 /\ ValidLabels(Split(Lower(t), 46))

\* The address inside the display form "Name <addr>", or the text itself,
\* given the text without trailing whitespace.
AddressOfTrimmed(t, trimmed) ==
    LET first == CHOOSE i \in Positions(t, 60) : \A j \in Positions(t, 60) : i <= j
    IN  IF /\ Positions(t, 60) # {} /\ trimmed[Len(trimmed)] = 62 /\ first < Len(trimmed) - 1
           /\ \A i \in 1..(first - 1) : IsAtext(t[i]) \/ IsSpace(t[i])
        THEN Strip(SubSeq(trimmed, first + 1, Len(trimmed) - 1))
        ELSE Strip(t)

AddressOf(t) == AddressOfTrimmed(t, RStrip(t))

\* The address splits at its one @ into a valid local part and domain.
ValidAddress(a) ==
    /\ Cardinality(Positions(a, 64)) = 1
    /\ \A at \in Positions(a, 64) :
          /\ at - 1 <= 64
          /\ IsDotAtom(SubSeq(a, 1, at - 1))
          /\ IsDomain(SubSeq(a, at + 1, Len(a)))

\* _email_validator.validate_python(text) does not raise ValidationError.
ValidEmail(text) == ValidAddress(AddressOf(text))

\* A valid address with its domain in lower case.
NormalizedAddress(a) ==
    LET at == CHOOSE i \in Positions(a, 64) : TRUE
    IN  SubSeq(a, 1, at) \o Lower(SubSeq(a, at + 1, Len(a)))

\* The value EmailStr validation returns for a valid text.
NormalizedEmail(text) == NormalizedAddress(AddressOf(text))

(***************************************************************************)
(* Dictionaries: a dict is the sequence of its <<key, value>> items in     *)
(* insertion order.  A row of read_excel has cell values as keys; a        *)
(* normalised row has texts as keys.                                       *)
(***************************************************************************)

IsNumber(v) == v.t \in {"int", "bool"} \/ (v.t = "float" /\ v.d # 0)

Denominator(v) == IF v.t = "float" THEN v.d ELSE 1

\* Two keys are the same dictionary key: equal, or numbers of equal value
\* (1 == 1.0 == True).
KeyEq(a, b) ==
    \/ a = b
    \/ (IsNumber(a) /\ IsNumber(b) /\ a.n * Denominator(b) = b.n * Denominator(a))

\* d[key] = value for a row of read_excel: an existing key keeps its place.
RowPut(d, key, value) ==
    IF \E j \in 1..Len(d) : KeyEq(d[j][1], key)
    THEN [j \in 1..Len(d) |-> IF KeyEq(d[j][1], key) THEN <<d[j][1], value>> ELSE d[j]]
    ELSE Append(d, <<key, value>>)

\* A dict assignment that keeps the value a key already has.
DictPutKeepingFirst(d, key, value) ==
    IF \E j \in 1..Len(d) : d[j][1] = key
    THEN d
    ELSE Append(d, <<key, value>>)

\* d[key] = value for a dict with text keys.
DictPut(d, key, value) ==
    IF \E j \in 1..Len(d) : d[j][1] = key
    THEN [j \in 1..Len(d) |-> IF d[j][1] = key THEN <<key, value>> ELSE d[j]]
    ELSE Append(d, <<key, value>>)

\* d.get(key), None when the key is absent.
DictGet(d, key) ==
    IF \E j \in 1..Len(d) : d[j][1] = key
    THEN d[CHOOSE j \in 1..Len(d) : d[j][1] = key][2]
    ELSE VNone

DictKeys(d) == {d[j][1] : j \in 1..Len(d)}

ROW_KEY == S("__row__")

\* row.get("__row__", 0) for a row of read_excel.
RealRow(row) ==
    IF \E j \in 1..Len(row) : row[j][1] = VStr(ROW_KEY)
    THEN row[CHOOSE j \in 1..Len(row) : row[j][1] = VStr(ROW_KEY)][2].n
    ELSE 0

\* The key _normalize_headers stores an item under, given the normalised
\* header: the canonical field of a known alias, or else the normalised header.
ResolveNormalized(alias, key_normalized) ==
    IF key_normalized.exc = "none" /\ key_normalized.v.s \in DOMAIN alias
    THEN Return(VStr(alias[key_normalized.v.s]))
    ELSE key_normalized

\* The key _normalize_headers stores an item under: "__row__" itself, or
\* the resolved header; the TypeError of a key that is not a str.
ResolveKey(alias, key) ==
    IF key = VStr(ROW_KEY) THEN Return(key) ELSE ResolveNormalized(alias, normalize_header(key))

\* The outcomes of resolving the keys of the first k items of the row.
RECURSIVE ResolveKeys(_, _, _)
ResolveKeys(alias, row, k) ==
    IF k = 0 THEN <<>>
    ELSE Append(ResolveKeys(alias, row, k - 1), ResolveKey(alias, row[k][1]))

\* The dict _normalize_headers has built after the first k items of the
\* row, given the resolved keys.
RECURSIVE NormalizedPrefix(_, _, _)
NormalizedPrefix(row, keys, k) ==
    IF k = 0 THEN <<>>
    ELSE DictPut(NormalizedPrefix(row, keys, k - 1), keys[k].v.s, row[k][2])

\* The outcome of _normalize_headers, given the outcomes of resolving the
\* keys: the TypeError of the first key that is not a str, or the dict in d.
NormalizedOrError(row, keys) ==
    IF \E k \in 1..Len(keys) : keys[k].exc # "none"
    THEN [exc |-> "TypeError",
          msg |-> keys[CHOOSE k \in 1..Len(keys) :
                          keys[k].exc # "none" /\ \A k2 \in 1..(k - 1) : keys[k2].exc = "none"].msg,
          d |-> <<>>]
    ELSE [exc |-> "none", msg |-> <<>>, d |-> NormalizedPrefix(row, keys, Len(row))]

\* RosterExcelParser._normalize_headers
normalize_headers(alias, row) == NormalizedOrError(row, ResolveKeys(alias, row, Len(row)))

\* The lower-cased keys of a normalised row.
AvailableKeys(normalized) == {Lower(k) : k \in DictKeys(normalized)}

\* validate_headers reporting every required key as missing.
MissingKeysAll(available_keys, required_keys) == required_keys

\* The list `missing` of validate_headers: the required keys, in order, that
\* are not among the available keys.
MissingKeys(available_keys, required_keys) ==
    SelectSeq(required_keys, LAMBDA required : Lower(S(required)) \notin available_keys)

\* The return value of validate_headers for a list of missing keys.
HeadersResult(missing) ==
    [exc |-> "none", msg |-> <<>>, is_valid |-> missing = <<>>, missing |-> missing]

\* validate_headers on the normalised first row.
ValidateNormalized(nh, required_keys) ==
    IF nh.exc # "none"
    THEN [exc |-> nh.exc, msg |-> nh.msg, is_valid |-> FALSE, missing |-> <<>>]
    ELSE HeadersResult(MissingKeys(AvailableKeys(nh.d), required_keys))

\* validate_headers looking at the last row instead of the first.
validate_headers_last_row(alias, data, required_keys) ==
    IF data = <<>>
    THEN [exc |-> "none", msg |-> <<>>, is_valid |-> FALSE, missing |-> required_keys]
    ELSE ValidateNormalized(normalize_headers(alias, data[Len(data)]), required_keys)

\* RosterExcelParser.validate_headers: (is_valid, missing), or the TypeError
\* _normalize_headers raised on the first row.
validate_headers(alias, data, required_keys) ==
    IF data = <<>>
    THEN [exc |-> "none", msg |-> <<>>, is_valid |-> FALSE, missing |-> required_keys]
    ELSE ValidateNormalized(normalize_headers(alias, data[1]), required_keys)

(***************************************************************************)
(* Issues, records and the row parsers                                     *)
(***************************************************************************)

\* ParseIssue(...).  column and value are Optional[str]: VNone or VStr.
ParseIssue(severity, code, message, row, column, value) ==
    [severity |-> severity, code |-> code, message |-> message, row |-> row,
     column |-> column, value |-> value]

\* The outcome of a row parser: a record with its warnings, or a raised
\* ParseIssueError carrying an issue, or any other exception with str(e).
NoIssue == ParseIssue("", "", <<>>, 0, VNone, VNone)

NoEntry == [excel_row |-> 0]

RowOk(entry, warnings) ==
    [exc |-> "none", msg |-> <<>>, issue |-> NoIssue, entry |-> entry, warnings |-> warnings]

RaiseIssue(issue) ==
    [exc |-> "ParseIssueError", msg |-> issue.message, issue |-> issue,
     entry |-> NoEntry, warnings |-> <<>>]

RowRaise(exc, msg) ==
    [exc |-> exc, msg |-> msg, issue |-> NoIssue, entry |-> NoEntry, warnings |-> <<>>]

\* The value pydantic stores in an Optional[int] field: a bool becomes an int.
IntField(v) == IF v.t = "bool" THEN VInt(v.n) ELSE v

\* A warning for every absent duration, whatever the flag says.
BreakWarningUnflagged(flag, duration, row_num, code, message, column) ==
    IF duration.t = "none"
    THEN << ParseIssue("warning", code, S(message), row_num, VStr(S(column)), VNone) >>
    ELSE <<>>

\* The warning of a break flag that is true while its duration is None.
BreakWarning(flag, duration, row_num, code, message, column) ==
    IF flag /\ duration.t = "none"
    THEN << ParseIssue("warning", code, S(message), row_num, VStr(S(column)), VNone) >>
    ELSE <<>>

\* The warnings of _parse_roster_row, in the order they are appended.
BreakWarnings(row_num, has_meal_break, meal_break_duration, has_rest_breaks, rest_breaks_duration) ==
    BreakWarning(has_meal_break, meal_break_duration, row_num,
                 "MEAL_BREAK_DURATION_MISSING",
                 "has_meal_break=true but meal_break_duration is missing",
                 "meal_break_duration")
    \o BreakWarning(has_rest_breaks, rest_breaks_duration, row_num,
                    "REST_BREAKS_DURATION_MISSING",
                    "has_rest_breaks=true but rest_breaks_duration is missing",
                    "rest_breaks_duration")

\* Overnight detection that counts equal times as overnight.
IsOvernightOrEqual(start_time, end_time) == end_time.d <= start_time.d

\* Overnight detection: end_time < start_time, on seconds of the day.
IsOvernight(start_time, end_time) == end_time.d < start_time.d

\* RosterEntry(...) as _parse_roster_row builds it.  EmailStr stores the
\* validated address; an Optional[int] field stores a bool as an int.
RosterEntry(normalized, row_num, employee_email, date_value, start_time, end_time,
            has_meal_break, meal_break_duration, has_rest_breaks, rest_breaks_duration) ==
    [excel_row |-> row_num,
     employee_email |-> NormalizedEmail(employee_email),
     employee_number |-> get_string(DictGet(normalized, Field.employee_number)),
     employee_name |-> get_string(DictGet(normalized, Field.employee_name)),
     date |-> date_value.n,
     start_time |-> start_time.d,
     end_time |-> end_time.d,
     is_overnight |-> IsOvernight(start_time, end_time),
     has_meal_break |-> has_meal_break,
     meal_break_duration |-> IntField(meal_break_duration),
     has_rest_breaks |-> has_rest_breaks,
     rest_breaks_duration |-> IntField(rest_breaks_duration),
     is_public_holiday |-> parse_boolean(DictGet(normalized, Field.is_public_holiday)),
     public_holiday_name |-> get_string(DictGet(normalized, Field.public_holiday_name)),
     is_on_call |-> parse_boolean(DictGet(normalized, Field.is_on_call)),
     location |-> get_string(DictGet(normalized, Field.location)),
     notes |-> get_string(DictGet(normalized, Field.notes))]

\* The tail of _parse_roster_row, after the four required fields, given the
\* outcomes of the two _parse_int calls: an exception of either leaves the
\* row parser, else the entry and its warnings are returned.
RosterEntryOf(normalized, row_num, employee_email, date_value, start_time, end_time,
              has_meal_break, meal_break_duration, has_rest_breaks, rest_breaks_duration) ==
    IF meal_break_duration.exc # "none"
    THEN RowRaise(meal_break_duration.exc, meal_break_duration.msg)
    ELSE IF rest_breaks_duration.exc # "none"
    THEN RowRaise(rest_breaks_duration.exc, rest_breaks_duration.msg)
    ELSE RowOk(RosterEntry(normalized, row_num, employee_email, date_value, start_time,
                           end_time, has_meal_break, meal_break_duration.v, has_rest_breaks,
                           rest_breaks_duration.v),
               BreakWarnings(row_num, has_meal_break, meal_break_duration.v, has_rest_breaks,
                             rest_breaks_duration.v))

\* Decimal.quantize(Decimal("0.01")) of n / d hours for d > 0, in hundredths
\* of an hour: to the nearest hundredth, a tie to the even one
\* (ROUND_HALF_EVEN, the rounding of the default decimal context).
QuantizeHundredths(n, d) ==
    IF 2 * ((100 * n) % d) < d THEN (100 * n) \div d
    ELSE IF 2 * ((100 * n) % d) > d THEN (100 * n) \div d + 1
    ELSE IF ((100 * n) \div d) % 2 = 0 THEN (100 * n) \div d
    ELSE (100 * n) \div d + 1

MAX_DATE == 99991231

\* RosterEntry.duration_hours, in hundredths of an hour: the seconds from
\* start to end, a day added to the end of an overnight entry, divided by
\* 3600 and quantized.  str() of the float quotient is its shortest decimal,
\* which quantizes as the exact quotient does.  Adding the day to a datetime
\* of date.max raises OverflowError.
duration_hours(entry) ==
    IF entry.is_overnight /\ entry.date = MAX_DATE
    THEN Raise("OverflowError", S("date value out of range"))
    ELSE Return(QuantizeHundredths(
                    entry.end_time - entry.start_time
                        + (IF entry.is_overnight THEN 24 * 3600 ELSE 0),
                    3600))

\* "self.meal_break_duration or 0"
OrZero(v) == IF v.t = "none" THEN 0 ELSE v.n

NetOfDurationFlagged(entry, duration) ==
    IF duration.exc # "none" THEN duration
    ELSE Return(QuantizeHundredths(36 * duration.v - 60 * ((IF entry.has_meal_break THEN OrZero(entry.meal_break_duration) ELSE 0) + (IF entry.has_rest_breaks THEN OrZero(entry.rest_breaks_duration) ELSE 0)), 3600))

\* RosterEntry.net_hours, in hundredths of an hour, given the outcome of
\* duration_hours: its exception, or the duration less the break hours,
\* quantized.  The break hours are str() of the float minutes / 60, within
\* 10^-15 of the exact quotient and never at a tie.
NetOfDuration(entry, duration) ==
    IF duration.exc # "none" THEN duration
    ELSE Return(QuantizeHundredths(
                    36 * duration.v
                        - 60 * (OrZero(entry.meal_break_duration)
                                + OrZero(entry.rest_breaks_duration)),
                    3600))

\* RosterEntry.net_hours
net_hours(entry) == NetOfDuration(entry, duration_hours(entry))

\* RosterParseResult.week_start_date
week_start_date(ents) ==
    IF ents = <<>> THEN VNone
    ELSE VDate(CHOOSE d \in {ents[n].date : n \in 1..Len(ents)} :
                   \A n \in 1..Len(ents) : d <= ents[n].date)

\* RosterParseResult.week_end_date
week_end_date(ents) ==
    IF ents = <<>> THEN VNone
    ELSE VDate(CHOOSE d \in {ents[n].date : n \in 1..Len(ents)} :
                   \A n \in 1..Len(ents) : d >= ents[n].date)

\* sum(...) over the first k entries, from Decimal("0.00"): the exception of
\* the first entry whose duration_hours raises, else the sum in hundredths.
RECURSIVE SumDurations(_, _)
SumDurations(ents, k) ==
    IF k = 0 THEN Return(0)
    ELSE IF SumDurations(ents, k - 1).exc # "none" THEN SumDurations(ents, k - 1)
    ELSE IF duration_hours(ents[k]).exc # "none" THEN duration_hours(ents[k])
    ELSE Return(SumDurations(ents, k - 1).v + duration_hours(ents[k]).v)

\* RosterParseResult.total_hours; quantize leaves a sum of hundredths as it is.
total_hours(ents) ==
    IF ents = <<>> THEN Return(0) ELSE SumDurations(ents, Len(ents))

\* RosterParseResult.total_shifts
total_shifts(ents) == Len(ents)

\* The count of distinct addresses as they are stored, case included.
unique_employees_cased(ents) ==
    IF ents = <<>> THEN 0
    ELSE Cardinality({ents[n].employee_email : n \in 1..Len(ents)})

\* RosterParseResult.unique_employees
unique_employees(ents) ==
    IF ents = <<>> THEN 0
    ELSE Cardinality({Lower(ents[n].employee_email) : n \in 1..Len(ents)})

\* A time is missing: "not start_time".  A datetime.time is always true
\* (midnight included, since Python 3.5), so only None is missing.
TimeMissing(t) == t.t = "none"

\* raise ParseIssueError(ParseIssue(severity=ERROR, ...)) of a row parser.
RowError(code, message, row_num, column, value) ==
    RaiseIssue(ParseIssue("error", code, message, row_num, VStr(S(column)), value))

\* The roster row parser with the date checked before the email.
RosterRowOfDateFirst(normalized, row_num, employee_email, date_value, start_time, end_time) ==
    IF date_value.exc = "ValueError"
    THEN RowError("INVALID_DATE", date_value.msg, row_num, "date",
                  get_string(DictGet(normalized, Field.date)))
    ELSE IF date_value.v.t = "none"
    THEN RowError("MISSING_REQUIRED_FIELD", S("Date is required"), row_num, "date", VNone)
    ELSE IF employee_email.t = "none"
    THEN RowError("MISSING_REQUIRED_FIELD", S("Employee Email is required"), row_num,
                  "employee_email", VNone)
    ELSE IF ~ValidEmail(employee_email.s)
    THEN RowError("INVALID_EMAIL", S("Invalid email format: ") \o employee_email.s, row_num,
                  "employee_email", employee_email)
    ELSE IF start_time.exc = "ValueError"
    THEN RowError("INVALID_TIME", start_time.msg, row_num, "start_time",
                  get_string(DictGet(normalized, Field.start_time)))
    ELSE IF start_time.exc # "none" THEN RowRaise(start_time.exc, start_time.msg)
    ELSE IF TimeMissing(start_time.v)
    THEN RowError("MISSING_REQUIRED_FIELD", S("Start Time is required"), row_num,
                  "start_time", VNone)
    ELSE IF end_time.exc = "ValueError"
    THEN RowError("INVALID_TIME", end_time.msg, row_num, "end_time",
                  get_string(DictGet(normalized, Field.end_time)))
    ELSE IF end_time.exc # "none" THEN RowRaise(end_time.exc, end_time.msg)
    ELSE IF TimeMissing(end_time.v)
    THEN RowError("MISSING_REQUIRED_FIELD", S("End Time is required"), row_num, "end_time",
                  VNone)
    ELSE RosterEntryOf(normalized, row_num, employee_email.s, date_value.v, start_time.v,
                       end_time.v,
                       parse_boolean(DictGet(normalized, Field.has_meal_break)),
                       parse_int(DictGet(normalized, Field.meal_break_duration)),
                       parse_boolean(DictGet(normalized, Field.has_rest_breaks)),
                       parse_int(DictGet(normalized, Field.rest_breaks_duration)))

\* _parse_roster_row after _normalize_headers, given the outcomes of the
\* coercers on the four required fields, in the order the code checks them.
RosterRowOf(normalized, row_num, employee_email, date_value, start_time, end_time) ==
    IF employee_email.t = "none"
    THEN RowError("MISSING_REQUIRED_FIELD", S("Employee Email is required"), row_num,
                  "employee_email", VNone)
    ELSE IF ~ValidEmail(employee_email.s)
    THEN RowError("INVALID_EMAIL", S("Invalid email format: ") \o employee_email.s, row_num,
                  "employee_email", employee_email)
    ELSE IF date_value.exc = "ValueError"
    THEN RowError("INVALID_DATE", date_value.msg, row_num, "date",
                  get_string(DictGet(normalized, Field.date)))
    ELSE IF date_value.v.t = "none"
    THEN RowError("MISSING_REQUIRED_FIELD", S("Date is required"), row_num, "date", VNone)
    ELSE IF start_time.exc = "ValueError"
    THEN RowError("INVALID_TIME", start_time.msg, row_num, "start_time",
                  get_string(DictGet(normalized, Field.start_time)))
    ELSE IF start_time.exc # "none" THEN RowRaise(start_time.exc, start_time.msg)
    ELSE IF TimeMissing(start_time.v)
    THEN RowError("MISSING_REQUIRED_FIELD", S("Start Time is required"), row_num,
                  "start_time", VNone)
    ELSE IF end_time.exc = "ValueError"
    THEN RowError("INVALID_TIME", end_time.msg, row_num, "end_time",
                  get_string(DictGet(normalized, Field.end_time)))
    ELSE IF end_time.exc # "none" THEN RowRaise(end_time.exc, end_time.msg)
    ELSE IF TimeMissing(end_time.v)
    THEN RowError("MISSING_REQUIRED_FIELD", S("End Time is required"), row_num, "end_time",
                  VNone)
    ELSE RosterEntryOf(normalized, row_num, employee_email.s, date_value.v, start_time.v,
                       end_time.v,
                       parse_boolean(DictGet(normalized, Field.has_meal_break)),
                       parse_int(DictGet(normalized, Field.meal_break_duration)),
                       parse_boolean(DictGet(normalized, Field.has_rest_breaks)),
                       parse_int(DictGet(normalized, Field.rest_breaks_duration)))

\* A row parser after _normalize_headers: its TypeError leaves the row parser.
RosterRowNormalized(nh, row_num) ==
    IF nh.exc # "none" THEN RowRaise(nh.exc, nh.msg)
    ELSE RosterRowOf(nh.d, row_num,
                     get_string(DictGet(nh.d, Field.employee_email)),
                     parse_date(DictGet(nh.d, Field.date)),
                     parse_time(DictGet(nh.d, Field.start_time)),
                     parse_time(DictGet(nh.d, Field.end_time)))

\* RosterExcelParser._parse_roster_row
parse_roster_row(alias, row, row_num) ==
    RosterRowNormalized(normalize_headers(alias, row), row_num)

\* The employee row parser with the email checked before the name.
EmployeeRowOfEmailFirst(normalized, row_num, name, email, role, start_date) ==
    IF email.t = "none"
    THEN RowError("MISSING_REQUIRED_FIELD", S("Email is required"), row_num, "email", VNone)
    ELSE IF name.t = "none"
    THEN RowError("MISSING_REQUIRED_FIELD", S("Name is required"), row_num, "name", VNone)
    ELSE IF role.t = "none"
    THEN RowError("MISSING_REQUIRED_FIELD", S("Role is required"), row_num, "role", VNone)
    ELSE IF start_date.exc # "none" THEN RowRaise(start_date.exc, start_date.msg)
    ELSE RowOk([excel_row |-> row_num,
                name |-> name.s,
                email |-> email.s,
                role |-> role.s,
                department |-> get_string(DictGet(normalized, Field.department)),
                start_date |-> start_date.v],
               <<>>)

\* _parse_employee_row after _normalize_headers, given the three required
\* strings and the outcome of _parse_date on the start date, whose
\* ValueError is not caught here.
EmployeeRowOf(normalized, row_num, name, email, role, start_date) ==
    IF name.t = "none"
    THEN RowError("MISSING_REQUIRED_FIELD", S("Name is required"), row_num, "name", VNone)
    ELSE IF email.t = "none"
    THEN RowError("MISSING_REQUIRED_FIELD", S("Email is required"), row_num, "email", VNone)
    ELSE IF role.t = "none"
    THEN RowError("MISSING_REQUIRED_FIELD", S("Role is required"), row_num, "role", VNone)
    ELSE IF start_date.exc # "none" THEN RowRaise(start_date.exc, start_date.msg)
    ELSE RowOk([excel_row |-> row_num,
                name |-> name.s,
                email |-> email.s,
                role |-> role.s,
                department |-> get_string(DictGet(normalized, Field.department)),
                start_date |-> start_date.v],
               <<>>)

EmployeeRowNormalized(nh, row_num) ==
    IF nh.exc # "none" THEN RowRaise(nh.exc, nh.msg)
    ELSE EmployeeRowOf(nh.d, row_num,
                       get_string(DictGet(nh.d, Field.name)),
                       get_string(DictGet(nh.d, Field.email)),
                       get_string(DictGet(nh.d, Field.role)),
                       parse_date(DictGet(nh.d, Field.start_date)))

\* RosterExcelParser._parse_employee_row
parse_employee_row(alias, row, row_num) ==
    EmployeeRowNormalized(normalize_headers(alias, row), row_num)

(***************************************************************************)
(* The reader's row loop and the batch orchestrator                        *)
(***************************************************************************)

\* The header list of read_excel: the cell values of the first row.
ReadHeaders(header_row) == [c \in 1..Len(header_row) |-> get_cell_value(header_row[c])]

\* The row_dict read_excel has built after the first k cells of a row: a
\* cell is stored when its column has a header that is true.
RECURSIVE RowDictPrefix(_, _, _)
RowDictPrefix(hdrs, row, k) ==
    IF k = 0 THEN <<>>
    ELSE IF k <= Len(hdrs) /\ ~Falsy(hdrs[k])
         THEN RowPut(RowDictPrefix(hdrs, row, k - 1), hdrs[k], get_cell_value(row[k]))
         ELSE RowDictPrefix(hdrs, row, k - 1)

\* is_empty_row of read_excel: no stored cell has a value.
IsEmptyRow(hdrs, row) ==
    \A k \in 1..Len(row) :
        (k <= Len(hdrs) /\ ~Falsy(hdrs[k])) => get_cell_value(row[k]).t = "none"

\* The row loop of read_excel numbering the rows it keeps, so that the
\* position of a skipped blank row is used again.
ReadOneRowRenumbered(dat, hdrs, row, real_row_num) ==
    IF IsEmptyRow(hdrs, row) THEN dat
    ELSE Append(dat, RowPut(RowDictPrefix(hdrs, row, Len(row)), VStr(ROW_KEY), VInt(Len(dat) + 2)))

\* One pass of the row loop of read_excel over the sheet row at position
\* real_row_num: data with the row appended, "__row__" last, or data
\* unchanged for an empty row.
ReadOneRow(dat, hdrs, row, real_row_num) ==
    IF IsEmptyRow(hdrs, row) THEN dat
    ELSE Append(dat, RowPut(RowDictPrefix(hdrs, row, Len(row)), VStr(ROW_KEY), VInt(real_row_num)))

\* The issue of an empty file without its code.
EmptyFileIssueUncoded ==
    ParseIssue("error", "", S("Excel file is empty or contains no data rows"), 0, VNone, VNone)

\* The file-level issue of an empty file.
EmptyFileIssue ==
    ParseIssue("error", "EMPTY_FILE", S("Excel file is empty or contains no data rows"),
               0, VNone, VNone)

\* ', '.join(missing)
RECURSIVE JoinKeys(_)
JoinKeys(missing) ==
    IF missing = <<>> THEN <<>>
    ELSE IF Len(missing) = 1 THEN S(missing[1])
    ELSE S(missing[1]) \o S(", ") \o JoinKeys(Tail(missing))

\* The file-level issue of missing required columns.
MissingColumnsIssue(missing) ==
    ParseIssue("error", "MISSING_REQUIRED_COLUMNS",
               S("Missing required columns: ") \o JoinKeys(missing), 0, VNone, VNone)

\* The required keys each entry point validates.
RequiredKeys(k) == IF k = "roster" THEN ROSTER_REQUIRED_KEYS ELSE EMPLOYEE_REQUIRED_KEYS

\* The row parser each entry point calls.
ParseRowOf(k, alias, row, row_num) ==
    IF k = "roster" THEN parse_roster_row(alias, row, row_num)
    ELSE parse_employee_row(alias, row, row_num)

\* The row loop with an except clause that drops the issue of a rejected row.
HandleRowDroppingIssue(out, real_row, ents, iss) ==
    IF out.exc = "none"
    THEN [entries |-> Append(ents, out.entry), issues |-> iss \o out.warnings, escaped |-> ""]
    ELSE [entries |-> ents, issues |-> iss, escaped |-> ""]

\* The row loop that stops accepting records once a row has been rejected.
HandleRowAfterFailure(out, real_row, ents, iss) ==
    IF out.exc = "none" /\ iss = <<>>
    THEN [entries |-> Append(ents, out.entry), issues |-> iss \o out.warnings, escaped |-> ""]
    ELSE IF out.exc = "none"
    THEN [entries |-> ents, issues |-> iss, escaped |-> ""]
    ELSE IF out.exc = "ParseIssueError"
    THEN [entries |-> ents, issues |-> Append(iss, out.issue), escaped |-> ""]
    ELSE [entries |-> ents,
          issues |-> Append(iss, ParseIssue("error", "ROW_PARSE_ERROR", out.msg, real_row,
                                            VNone, VNone)),
          escaped |-> ""]

\* The row loop that puts the issue of a rejected row at the head of the list.
HandleRowPrepending(out, real_row, ents, iss) ==
    IF out.exc = "none"
    THEN [entries |-> Append(ents, out.entry), issues |-> iss \o out.warnings, escaped |-> ""]
    ELSE IF out.exc = "ParseIssueError"
    THEN [entries |-> ents, issues |-> <<out.issue>> \o iss, escaped |-> ""]
    ELSE [entries |-> ents,
          issues |-> <<ParseIssue("error", "ROW_PARSE_ERROR", out.msg, real_row, VNone, VNone)>>
                     \o iss,
          escaped |-> ""]

\* The row loop without its "except Exception" clause.
HandleRowUncaught(out, real_row, ents, iss) ==
    IF out.exc = "none"
    THEN [entries |-> Append(ents, out.entry), issues |-> iss \o out.warnings, escaped |-> ""]
    ELSE IF out.exc = "ParseIssueError"
    THEN [entries |-> ents, issues |-> Append(iss, out.issue), escaped |-> ""]
    ELSE [entries |-> ents, issues |-> iss, escaped |-> out.exc]

\* The body of the row loop of parse_roster_excel / parse_employee_excel:
\* the lists after the try statement has handled the row parser's outcome.
\* escaped names an exception no handler caught ("" when all are caught).
HandleRow(out, real_row, ents, iss) ==
    IF out.exc = "none"
    THEN [entries |-> Append(ents, out.entry), issues |-> iss \o out.warnings, escaped |-> ""]
    ELSE IF out.exc = "ParseIssueError"
    THEN [entries |-> ents, issues |-> Append(iss, out.issue), escaped |-> ""]
    ELSE [entries |-> ents,
          issues |-> Append(iss, ParseIssue("error", "ROW_PARSE_ERROR", out.msg, real_row,
                                            VNone, VNone)),
          escaped |-> ""]

(***************************************************************************)
(* Bounds and input pools                                                  *)
(***************************************************************************)

\* The largest number of sheet rows below the header row.
MaxRows == 2

Txt(str) == VStr(S(str))

\* A roster sheet: email, date, start, end, the two break flags and durations.
RosterHeader ==
    << Txt("Employee Email"), Txt("Date"), Txt("Start Time"), Txt("End Time"),
       Txt("Has Meal Break"), Txt("Meal Break Duration"),
       Txt("Has Rest Breaks"), Txt("Rest Breaks Duration") >>

RosterRow(e, d, st, en, mf, md, rf, rd) == <<e, d, st, en, mf, md, rf, rd>>

John == Txt("john@example.com")

Day == Txt("2024-01-15")

RosterRows ==
    { RosterRow(John, Day, Txt("09:00"), Txt("17:00"), VNone, VNone, VNone, VNone),
      RosterRow(Txt("Jane@Example.COM"), Txt("16/01/2024"), Txt("9"), Txt("5 PM"), Txt("Yes"), VInt(30), Txt("no"), VNone),
      RosterRow(John, Day, Txt("09:00"), Txt("17:00"), Txt("Yes"), VNone, VNone, VNone),
      RosterRow(John, Day, Txt("09:00"), Txt("17:00"), Txt("y"), Txt("abc"), VBool(TRUE), VNone),
      RosterRow(John, Day, Txt("09:00"), Txt("17:00"), Txt("Yes"), VNone, VInt(1), Txt("inf")),
      RosterRow(John, Day, Txt("09:00"), Txt("17:00"), VNone, FloatNaN, VNone, VNone),
      RosterRow(VNone, Day, Txt("09:00"), Txt("17:00"), VNone, VNone, VNone, VNone),
      RosterRow(Txt("not-an-email"), Day, Txt("09:00"), Txt("17:00"), Txt("Yes"), VNone, VNone, VNone),
      RosterRow(VInt(42), Txt("bad-date"), Txt("9:00-17:00"), VNone, VNone, VNone, VNone, VNone),
      RosterRow(John, VNone, Txt("09:00"), Txt("17:00"), VNone, VNone, VNone, VNone),
      RosterRow(John, Txt("31/02/2024"), VNone, Txt("17:00"), Txt("Yes"), VNone, VNone, VNone),
      RosterRow(John, VInt(45306), Txt("09:00"), Txt("17:00"), VNone, VNone, VNone, VNone),
      RosterRow(John, VDateTime(20240117, 0), VTime(0), VDateTime(20240117, 30600), VNone, VNone, VNone, VNone),
      RosterRow(John, Day, VNone, Txt("17:00"), VNone, VNone, VNone, VNone),
      RosterRow(John, Day, Txt("9:00-17:00"), Txt("25:00"), VNone, VNone, VNone, VNone),
      RosterRow(John, Day, FloatInf, Txt("17:00"), VNone, VNone, VNone, VNone),
      RosterRow(John, Day, Txt("09:00"), VNone, VNone, VNone, VNone, VNone),
      RosterRow(John, Day, Txt("09:00"), Txt("25:00"), VNone, VNone, VNone, VNone),
      RosterRow(John, Day, Txt("09:00"), Txt("9 to 5"), VNone, VNone, VNone, VNone),
      RosterRow(John, Day, Txt("09:00"), FloatNaN, VNone, VNone, VNone, VNone),
      RosterRow(John, Day, Txt("09:00"), FloatNegInf, VNone, VNone, VNone, VNone),
      RosterRow(John, Day, Txt("22:00"), Txt("06:00"), VNone, VNone, VNone, VNone),
      RosterRow(John, Day, Txt("17:00"), Txt("00:00"), VNone, VNone, VNone, VNone),
      RosterRow(John, Day, Txt("09:00"), Txt("09:00"), VNone, VNone, VNone, VNone),
      RosterRow(John, Day, VFloat(3, 4), VFloat(1, 4), Txt("TRUE"), Txt("45.9"), VNone, VNone),
      <<John, Day>>,
      RosterRow(VNone, VNone, VNone, VNone, VNone, VNone, VNone, VNone) }

\* A roster sheet whose headers are aliases with noise, full-width letters
\* and a line break.
AliasHeader ==
    << Txt("STAFF  EMAIL*"), Txt("Shift_Date"),
       VStr(<<65363, 65364, 65345, 65362, 65364>>), VStr(S("Finish") \o <<10>> \o S("Time")) >>

AliasRows ==
    { <<John, Day, Txt("09:00"), Txt("17:00")>>,
      <<John, Txt("2024-13-01"), Txt("09:00"), Txt("17:00")>> }

\* A sheet without a start time column.
MissingHeader == << Txt("Employee Email"), Txt("Date"), Txt("Notes"), Txt("End") >>

MissingRows == { <<John, Day, Txt("late"), Txt("17:00")>> }

\* A sheet with none of the required columns of either kind.
NotesHeader == << Txt("Notes"), VNone, Txt("Location") >>

NotesRows == { <<Txt("n/a"), Txt("x"), Txt("Office")>> }

\* A roster sheet with a header cell that holds a number.
NumberHeader ==
    << Txt("Employee Email"), Txt("Date"), Txt("Start Time"), Txt("End Time"), VInt(2024) >>

NumberRows ==
    { <<John, Day, Txt("09:00"), Txt("17:00"), VInt(7)>>,
      <<John, Day, Txt("09:00"), Txt("17:00")>> }

\* A roster sheet with two columns that are aliases of employee_email.
TwoEmailHeader ==
    << Txt("Employee Email"), Txt("Staff Email"), Txt("Date"), Txt("Start"), Txt("End") >>

TwoEmailRows ==
    { <<John, VNone, Day, Txt("09:00"), Txt("17:00")>>,
      <<VNone, John, Day, Txt("09:00"), Txt("17:00")>> }

\* An employee sheet.
EmployeeHeader ==
    << Txt("Name"), Txt("Email"), Txt("Role"), Txt("Department"), Txt("Start Date") >>

EmployeeRows ==
    { <<Txt("John Smith"), John, Txt("Manager"), Txt("Sales"), Txt("2023-01-01")>>,
      <<Txt("Jane Doe"), Txt("not-an-email"), Txt("Developer"), VNone, VNone>>,
      <<VNone, John, Txt("Manager"), VNone, VNone>>,
      <<Txt("John Smith"), VNone, VNone, VNone, Txt("bad-date")>>,
      <<Txt("John Smith"), John, Txt("  "), VNone, VNone>>,
      <<Txt("John Smith"), John, Txt("Manager"), VNone, Txt("01.13.2023")>>,
      <<Txt("John Smith"), John, Txt("Manager"), VInt(7), VInt(45306)>>,
      <<Txt("John Smith"), John, Txt("Manager"), VNone, VDateTime(20230615, 0)>>,
      <<VNone, VNone, VNone, VNone, VNone>> }

\* An employee sheet without a role column.
NoRoleHeader == << Txt("Full Name"), Txt("E-mail") >>

NoRoleRows == { <<Txt("John Smith"), John>> }

\* The sheet layouts: a header row and the rows that may follow it.
Layouts ==
    { [header |-> RosterHeader, rows |-> RosterRows],
      [header |-> AliasHeader, rows |-> AliasRows],
      [header |-> MissingHeader, rows |-> MissingRows],
      [header |-> NotesHeader, rows |-> NotesRows],
      [header |-> NumberHeader, rows |-> NumberRows],
      [header |-> TwoEmailHeader, rows |-> TwoEmailRows],
      [header |-> EmployeeHeader, rows |-> EmployeeRows],
      [header |-> NoRoleHeader, rows |-> NoRoleRows] }

SeqsUpTo(set, n) == UNION {[1..k -> set] : k \in 0..n}

\* The sheets: no row at all, or a header row and up to MaxRows further rows.
Sheets ==
    {<<>>} \cup UNION {{<<l.header>> \o rows : rows \in SeqsUpTo(l.rows, MaxRows)} : l \in Layouts}

Kinds == {"roster", "employee"}

\* The sheets of two calls on one parser: the rows of a second sheet repeat
\* or replace the rows of the first, position by position.
MaxPairRows == 2

PairRosterRows ==
    { RosterRow(John, Day, Txt("09:00"), Txt("17:00"), VNone, VNone, VNone, VNone),
      RosterRow(Txt("Jane@Example.COM"), Txt("16/01/2024"), Txt("22:00"), Txt("06:00"), Txt("Yes"), VNone, VNone, VNone),
      RosterRow(John, Txt("bad-date"), Txt("09:00"), Txt("17:00"), VNone, VNone, VNone, VNone),
      RosterRow(John, Day, Txt("09:00"), Txt("17:00"), VNone, Txt("inf"), VNone, VNone),
      RosterRow(VNone, VNone, VNone, VNone, VNone, VNone, VNone, VNone) }

PairEmployeeRows ==
    { <<Txt("John Smith"), John, Txt("Manager"), Txt("Sales"), Txt("2023-01-01")>>,
      <<Txt("Jane Doe"), Txt("jane@example.com"), VNone, VNone, VNone>>,
      <<Txt("John Smith"), John, Txt("Manager"), VNone, Txt("bad-date")>> }

PairSheets ==
    {<<>>}
    \cup {<<RosterHeader>> \o rows : rows \in SeqsUpTo(PairRosterRows, MaxPairRows)}
    \cup {<<EmployeeHeader>> \o rows : rows \in SeqsUpTo(PairEmployeeRows, MaxPairRows)}
    \cup {<<MissingHeader>> \o rows : rows \in SeqsUpTo(MissingRows, 1)}

\* The rows handed to the roster row parser on its own: every pair of start
\* and end time of EntrySeconds, on an ordinary date and on date.max, with
\* each break flag set or absent and each duration absent or a number.
EntrySeconds == {0, 1, 18, 55, 32400, 61200, 79200, 86399}

EntryDates == {Day, Txt("9999-12-31")}

EntryFlags == {VNone, Txt("Yes")}

EntryMealDurations == {VNone, VInt(30), VInt(600), VInt(-30)}

EntryRestDurations == {VNone, VInt(20)}

EntryRows ==
    {ReadOneRow(<<>>, ReadHeaders(RosterHeader),
                RosterRow(John, d, VTime(cells[1]), VTime(cells[2]), flags[1], md,
                          flags[2], rd), 2)[1] :
             d \in EntryDates, cells \in EntrySeconds \X EntrySeconds,
             flags \in EntryFlags \X EntryFlags,
             md \in EntryMealDurations, rd \in EntryRestDurations}

(***************************************************************************)
(* State                                                                   *)
(***************************************************************************)

VARIABLES
    kind,                 \* the entry point called: "roster" (parse_roster_excel) or "employee"; "none" before a call
    sheet,                \* the worksheet: its rows of raw cell values, header row first
    alias_to_canonical,   \* self._alias_to_canonical
    pc,                   \* the position in the entry point
    headers,              \* read_excel: headers
    ri,                   \* read_excel: the sheet row the row loop reads next
    data,                 \* read_excel: data, then the entry point's data
    di,                    \* the index into data of the row loop of the entry point
    entries,              \* entries
    issues,               \* issues (errors in parse_employee_excel)
    outcome,              \* "none", "running", "returned", or the exception that escaped
    earlier,              \* what an earlier call on this parser returned; <<>> before any
    helper,               \* a helper called on its own: its name and arguments; <<>> if none
    ret                   \* what that helper returned or raised; <<>> before it has run

parser_vars == <<kind, sheet, alias_to_canonical, pc, headers, ri, data, di, entries, issues, outcome>>

vars == <<kind, sheet, alias_to_canonical, pc, headers, ri, data, di, entries, issues, outcome,
          earlier, helper, ret>>

\* The state after RosterExcelParser(): the alias map is built and no entry
\* point has been called.
Init ==
    /\ kind = "none"
    /\ sheet = <<>>
    /\ alias_to_canonical = BuildAliasMap
    /\ pc = "idle"
    /\ headers = <<>>
    /\ ri = 1
    /\ data = <<>>
    /\ di = 1
    /\ entries = <<>>
    /\ issues = <<>>
    /\ outcome = "none"
    /\ earlier = <<>>
    /\ helper = <<>>
    /\ ret = <<>>

\* An entry point that goes on with the records and issues of the call before.
CallKeepingLists(k, s) ==
    /\ kind' = k
    /\ sheet' = s
    /\ pc' = "open"
    /\ headers' = <<>>
    /\ ri' = 1
    /\ data' = <<>>
    /\ di' = 1
    /\ outcome' = "running"
    /\ UNCHANGED <<alias_to_canonical, entries, issues, helper, ret>>

\* parse_roster_excel(file_path) or parse_employee_excel(file_path) is called
\* on a workbook whose active sheet is s.
Call(k, s) ==
    /\ kind' = k
    /\ sheet' = s
    /\ pc' = "open"
    /\ headers' = <<>>
    /\ ri' = 1
    /\ data' = <<>>
    /\ di' = 1
    /\ entries' = <<>>
    /\ issues' = <<>>
    /\ outcome' = "running"
    /\ UNCHANGED <<alias_to_canonical, helper, ret>>

\* A caller calls one of the two entry points on one of the sheets.
CallParser == pc = "idle" /\ UNCHANGED earlier /\ \E k \in Kinds, s \in Sheets : Call(k, s)

\* read_excel: next(row_iter) for the header row; StopIteration returns [].
ReadHeader ==
    /\ pc = "open"
    /\ headers' = IF sheet = <<>> THEN <<>> ELSE ReadHeaders(sheet[1])
    /\ ri' = 2
    /\ pc' = "read"
    /\ UNCHANGED <<kind, sheet, alias_to_canonical, data, di, entries, issues, outcome,
                 earlier, helper, ret>>

\* read_excel: one pass of "for row in row_iter".
ReadRow ==
    /\ pc = "read"
    /\ ri <= Len(sheet)
    /\ data' = ReadOneRow(data, headers, sheet[ri], ri)
    /\ ri' = ri + 1
    /\ UNCHANGED <<kind, sheet, alias_to_canonical, pc, headers, di, entries, issues, outcome,
                 earlier, helper, ret>>

\* read_excel returns; "if not data" returns the EMPTY_FILE issue.
CheckEmpty ==
    /\ pc = "read"
    /\ ri > Len(sheet)
    /\ IF data = <<>>
       THEN /\ issues' = <<EmptyFileIssue>>
            /\ pc' = "done"
            /\ outcome' = "returned"
       ELSE /\ pc' = "validate"
            /\ UNCHANGED <<issues, outcome>>
    /\ UNCHANGED <<kind, sheet, alias_to_canonical, headers, ri, data, di, entries,
                 earlier, helper, ret>>

\* validate_headers and "if not is_valid".
ValidateHeaders ==
    /\ pc = "validate"
    /\ \E vh \in {validate_headers(alias_to_canonical, data, RequiredKeys(kind))} :
           IF vh.exc # "none"
           THEN /\ pc' = "done"
                /\ outcome' = vh.exc
                /\ UNCHANGED issues
           ELSE IF ~vh.is_valid
           THEN /\ issues' = <<MissingColumnsIssue(vh.missing)>>
                /\ pc' = "done"
                /\ outcome' = "returned"
           ELSE /\ pc' = "rows"
                /\ UNCHANGED <<issues, outcome>>
    /\ UNCHANGED <<kind, sheet, alias_to_canonical, headers, ri, data, di, entries,
                 earlier, helper, ret>>

\* One pass of "for row in data".
ParseRow ==
    /\ pc = "rows"
    /\ di <= Len(data)
    /\ \E next \in {HandleRow(ParseRowOf(kind, alias_to_canonical, data[di], RealRow(data[di])),
                                RealRow(data[di]), entries, issues)} :
           /\ entries' = next.entries
           /\ issues' = next.issues
           /\ IF next.escaped = ""
              THEN /\ di' = di + 1
                   /\ UNCHANGED <<pc, outcome>>
              ELSE /\ pc' = "done"
                   /\ outcome' = next.escaped
                   /\ UNCHANGED di
    /\ UNCHANGED <<kind, sheet, alias_to_canonical, headers, ri, data,
                 earlier, helper, ret>>

\* The return after the row loop.
ReturnResult ==
    /\ pc = "rows"
    /\ di > Len(data)
    /\ pc' = "done"
    /\ outcome' = "returned"
    /\ UNCHANGED <<kind, sheet, alias_to_canonical, headers, ri, data, di, entries, issues,
                 earlier, helper, ret>>

Next ==
    \/ CallParser
    \/ ReadHeader
    \/ ReadRow
    \/ CheckEmpty
    \/ ValidateHeaders
    \/ ParseRow
    \/ ReturnResult

Spec == Init /\ [][Next]_vars

\* A first call on a fresh parser, on one of the sheets of a pair.
CallFirst ==
    /\ pc = "idle"
    /\ UNCHANGED earlier
    /\ \E k \in Kinds, s \in PairSheets : Call(k, s)

\* The same entry point is called again on the same parser object, on another
\* sheet of the pair; what the first call returned is kept for comparison.
CallSecond ==
    /\ pc = "done"
    /\ earlier = <<>>
    /\ earlier' = <<[data |-> data, di |-> di, entries |-> entries, issues |-> issues,
                     outcome |-> outcome]>>
    /\ \E s \in PairSheets : Call(kind, s)

NextPair ==
    \/ CallFirst
    \/ ReadHeader
    \/ ReadRow
    \/ CheckEmpty
    \/ ValidateHeaders
    \/ ParseRow
    \/ ReturnResult
    \/ CallSecond

SpecPair == Init /\ [][NextPair]_vars

\* _parse_roster_row is called on its own with one row of read_excel.
CallRosterRowParser ==
    /\ helper = <<>>
    /\ \E row \in EntryRows : helper' = <<[fn |-> "_parse_roster_row", row |-> row]>>
    /\ UNCHANGED <<parser_vars, earlier, ret>>

\* _parse_roster_row returns its record and warnings, or raises.
ReturnRosterRow ==
    /\ helper # <<>>
    /\ helper[1].fn = "_parse_roster_row"
    /\ ret = <<>>
    /\ ret' = <<parse_roster_row(alias_to_canonical, helper[1].row, RealRow(helper[1].row))>>
    /\ UNCHANGED <<parser_vars, earlier, helper>>

NextRow ==
    \/ CallRosterRowParser
    \/ ReturnRosterRow

SpecRow == Init /\ [][NextRow]_vars

(***************************************************************************)
(* The header resolver on its own: _normalize_headers is called with the   *)
(* dict of one row, which holds one header and the row number.             *)
(***************************************************************************)

\* The text with every space replaced by sep.
RECURSIVE Subst(_, _)
Subst(t, sep) ==
    IF t = <<>> THEN <<>>
    ELSE (IF Head(t) = 32 THEN sep ELSE <<Head(t)>>) \o Subst(Tail(t), sep)

\* The text in full-width forms: U+FF01..U+FF5E for the printable ASCII
\* characters, IDEOGRAPHIC SPACE for the space.
FullWidth(t) ==
    [n \in 1..Len(t) |-> IF t[n] = 32 THEN 12288
                         ELSE IF t[n] >= 33 /\ t[n] <= 126 THEN t[n] + 65248
                         ELSE t[n]]

HeaderBases ==
    {S("Employee Email"), S("Start Time"), S("On Call"), S("Name"), S("E mail"),
     S("Shift Date"), S("Finish Time"), S("Roster Week")}

\* Spellings of a header: other case, other whitespace, full-width forms,
\* noise punctuation between and around the words, and the words run together.
HeaderVariants(t) ==
    {t, Upper(t), Lower(t), FullWidth(t), FullWidth(Upper(t)),
     Subst(t, <<95>>), Lower(Subst(t, <<95>>)), Subst(t, <<45>>), Upper(Subst(t, <<45>>)),
     Subst(t, <<46>>), Subst(t, <<32, 32>>), Subst(t, <<10>>), Subst(t, <<9, 32>>),
     Subst(t, <<12288>>), Subst(t, <<32, 58, 32>>), Subst(t, <<32, 45, 32>>),
     Subst(t, <<65306>>), <<42>> \o t, <<35, 32>> \o t, t \o <<58>>, t \o <<65306>>,
     t \o <<32, 42>>, Subst(t, <<>>)}

HeaderPool == UNION {HeaderVariants(t) : t \in HeaderBases}

HeaderValues == {Txt("x"), VInt(7)}

\* _normalize_headers is entered with a row of read_excel.
CallHeaderResolver ==
    /\ helper = <<>>
    /\ \E header \in HeaderPool, value \in HeaderValues :
           helper' = <<[fn |-> "_normalize_headers",
                        row |-> << <<VStr(header), value>>, <<VStr(ROW_KEY), VInt(2)>> >>]>>
    /\ UNCHANGED <<parser_vars, earlier, ret>>

\* _normalize_headers returns the dict with the resolved keys.
ReturnHeaders ==
    /\ helper # <<>>
    /\ helper[1].fn = "_normalize_headers"
    /\ ret = <<>>
    /\ ret' = <<normalize_headers(alias_to_canonical, helper[1].row)>>
    /\ UNCHANGED <<parser_vars, earlier, helper>>

NextHeader ==
    \/ CallHeaderResolver
    \/ ReturnHeaders

SpecHeader == Init /\ [][NextHeader]_vars

(***************************************************************************)
(* The time coercer on its own: _parse_time is called with one cell value. *)
(***************************************************************************)

ClockHours == 0..23

ClockMinutes == {0, 5, 59}

ClockSeconds == {0, 59}

\* The hour of a 12-hour clock and its marker.
Hour12(hour) == IF hour % 12 = 0 THEN 12 ELSE hour % 12

Marker(hour) == IF hour < 12 THEN S("AM") ELSE S("PM")

\* "H:MM" or "H:MM:SS" with the hour as written in hh.
ClockText(hh, minute, second, with_seconds) ==
    hh \o <<58>> \o PadText(minute, 2)
    \o (IF with_seconds THEN <<58>> \o PadText(second, 2) ELSE <<>>)

\* The ways of writing hh:mm[:ss] with or without seconds; without them
\* only on a whole minute.
ClockForms(hh, minute, second) ==
    {ClockText(hh, minute, second, TRUE)}
    \cup (IF second = 0 THEN {ClockText(hh, minute, second, FALSE)} ELSE {})

\* The texts of a clock time: 24-hour and 12-hour with a marker (upper or
\* lower case, after a space or not), the hour padded or not, with or
\* without seconds; on a whole hour also the bare hour, alone or with
\* its marker.
ClockTexts(hour, minute, second) ==
    ClockForms(NatText(hour), minute, second)
    \cup ClockForms(PadText(hour, 2), minute, second)
    \cup {t \o tail : t \in ClockForms(NatText(Hour12(hour)), minute, second)
                             \cup ClockForms(PadText(Hour12(hour), 2), minute, second),
                      tail \in {Marker(hour), <<32>> \o Marker(hour), Lower(Marker(hour)),
                                <<32>> \o Lower(Marker(hour))}}
    \cup (IF minute = 0 /\ second = 0
          THEN {NatText(hour), NatText(Hour12(hour)) \o Marker(hour),
                NatText(Hour12(hour)) \o <<32>> \o Marker(hour)}
          ELSE {})

TimeTexts ==
    UNION {ClockTexts(hour, minute, second) :
               hour \in ClockHours, minute \in ClockMinutes, second \in ClockSeconds}

\* Time-like tokens: 24-hour, bare hours, and 12-hour with a marker.
RangeStarts == {S("9:00"), S("09:00:00"), S("9"), S("9:00 AM"), S("9AM")}

RangeEnds == {S("17:00"), S("17:00:00"), S("17"), S("5:00 PM"), S("5PM")}

\* '-', '~', full-width tilde, en-dash, em-dash and "to", bare or spaced.
RangeJoiners ==
    {<<45>>, <<126>>, <<65374>>, <<8211>>, <<8212>>, S("to"), S(" - "), S(" to "), S(" TO "),
     S(" ~ ")}

RangeTexts == {a \o j \o b : a \in RangeStarts, j \in RangeJoiners, b \in RangeEnds}

\* Numeric cells: fractions of a day n/d, whole numbers, negative values,
\* the infinities and NaN.
NumericCells ==
    {VFloat(1, 2), VFloat(1, 4), VFloat(3, 2), VFloat(5, 8), VFloat(-1, 4), VFloat(-5, 2),
     VFloat(1, 131072), VFloat(-1, 131072), VFloat(12345, 16384), VFloat(0, 1), VFloat(1, 1),
     VInt(0), VInt(1), VInt(-1), VInt(3), VFloat(1, 0), VFloat(-1, 0), VFloat(0, 0)}

TimeCells == {VStr(t) : t \in TimeTexts \cup RangeTexts} \cup NumericCells

\* _parse_time is entered with a cell value.
CallTimeCoercer ==
    /\ helper = <<>>
    /\ \E value \in TimeCells : helper' = <<[fn |-> "_parse_time", value |-> value]>>
    /\ UNCHANGED <<parser_vars, earlier, ret>>

\* _parse_time returns a time or raises.
ReturnTime ==
    /\ helper # <<>>
    /\ helper[1].fn = "_parse_time"
    /\ ret = <<>>
    /\ ret' = <<parse_time(helper[1].value)>>
    /\ UNCHANGED <<parser_vars, earlier, helper>>

NextTime ==
    \/ CallTimeCoercer
    \/ ReturnTime

SpecTime == Init /\ [][NextTime]_vars

(***************************************************************************)
(* The statistics of a roster result: parse_roster_excel runs on a sheet   *)
(* and the caller reads total_shifts and unique_employees of the result.   *)
(***************************************************************************)

MaxResultRows == 3

ResultEmails ==
    {Txt("John@x.com"), Txt("john@x.com"), Txt("JOHN@X.COM"), Txt("jane@x.com"),
     Txt("not-an-email")}

ResultRows ==
    {RosterRow(email, Day, Txt("09:00"), Txt("17:00"), VNone, VNone, VNone, VNone) :
         email \in ResultEmails}
    \cup {RosterRow(Txt("jane@x.com"), Txt("2024-01-10"), Txt("22:00"), Txt("06:00:20"),
                    VNone, VNone, VNone, VNone),
          RosterRow(Txt("john@x.com"), Txt("9999-12-31"), Txt("22:00"), Txt("06:00"),
                    VNone, VNone, VNone, VNone)}

ResultSheets ==
    UNION {{<<RosterHeader>> \o rows : rows \in [1..len -> ResultRows]} : len \in 0..MaxResultRows}

CallRosterParser ==
    /\ pc = "idle"
    /\ UNCHANGED earlier
    /\ \E s \in ResultSheets : Call("roster", s)

\* The caller reads the computed fields of the RosterParseResult returned.
ReadStatistics ==
    /\ pc = "done"
    /\ kind = "roster"
    /\ outcome = "returned"
    /\ ret = <<>>
    /\ ret' = <<[week_start_date |-> week_start_date(entries),
                 week_end_date |-> week_end_date(entries),
                 total_shifts |-> total_shifts(entries),
                 total_hours |-> total_hours(entries),
                 unique_employees |-> unique_employees(entries)]>>
    /\ UNCHANGED <<parser_vars, earlier, helper>>

NextResult ==
    \/ CallRosterParser
    \/ ReadHeader
    \/ ReadRow
    \/ CheckEmpty
    \/ ValidateHeaders
    \/ ParseRow
    \/ ReturnResult
    \/ ReadStatistics

SpecResult == Init /\ [][NextResult]_vars

(***************************************************************************)
(* The employee row parser on its own: _parse_employee_row is called with  *)
(* the dict of one row.                                                    *)
(***************************************************************************)

EmployeeNames == {VNone, Txt("  "), Txt("John Smith"), VInt(7)}

EmployeeEmails == {VNone, Txt(" "), Txt("john@example.com"), Txt("not-an-email"), Txt("a@b@c")}

EmployeeRoles == {VNone, Txt(""), Txt("Manager"), Txt(" Developer ")}

EmployeeStartDates == {VNone, Txt("2023-01-01"), Txt("bad-date")}

\* The dict of a row under the headers Name, Email, Role, Start Date.
EmployeeDict(name, email, role, start_date) ==
    << <<Txt("Name"), name>>, <<Txt("Email"), email>>, <<Txt("Role"), role>>,
       <<Txt("Start Date"), start_date>>, <<VStr(ROW_KEY), VInt(2)>> >>

EmployeeDicts ==
    {EmployeeDict(name, email, role, start_date) :
         name \in EmployeeNames, email \in EmployeeEmails, role \in EmployeeRoles,
         start_date \in EmployeeStartDates}

CallEmployeeRowParser ==
    /\ helper = <<>>
    /\ \E row \in EmployeeDicts : helper' = <<[fn |-> "_parse_employee_row", row |-> row]>>
    /\ UNCHANGED <<parser_vars, earlier, ret>>

\* _parse_employee_row returns its record or raises.
ReturnEmployeeRow ==
    /\ helper # <<>>
    /\ helper[1].fn = "_parse_employee_row"
    /\ ret = <<>>
    /\ ret' = <<parse_employee_row(alias_to_canonical, helper[1].row, RealRow(helper[1].row))>>
    /\ UNCHANGED <<parser_vars, earlier, helper>>

NextEmployeeRow ==
    \/ CallEmployeeRowParser
    \/ ReturnEmployeeRow

SpecEmployeeRow == Init /\ [][NextEmployeeRow]_vars

(***************************************************************************)
(* The roster row parser on rows with defective required fields.           *)
(***************************************************************************)

DefectEmails == {John, VNone, Txt("not-an-email")}

DefectDates == {Day, VNone, Txt("bad-date")}

DefectStarts == {Txt("09:00"), VNone, Txt("25:00"), FloatInf}

DefectEnds == {Txt("17:00"), VNone, Txt("9-17"), FloatInf}

DefectMealDurations == {VNone, VInt(30), Txt("inf")}

DefectRows ==
    {ReadOneRow(<<>>, ReadHeaders(RosterHeader),
                RosterRow(email, date, cells[1], cells[2], Txt("Yes"), md, VNone, VNone), 2)[1] :
         email \in DefectEmails, date \in DefectDates, cells \in DefectStarts \X DefectEnds,
         md \in DefectMealDurations}

CallRosterRowParserOnDefects ==
    /\ helper = <<>>
    /\ \E row \in DefectRows : helper' = <<[fn |-> "_parse_roster_row", row |-> row]>>
    /\ UNCHANGED <<parser_vars, earlier, ret>>

NextDefect ==
    \/ CallRosterRowParserOnDefects
    \/ ReturnRosterRow

SpecDefect == Init /\ [][NextDefect]_vars

(***************************************************************************)
(* The integer coercer on its own: _parse_int is called with a cell value. *)
(***************************************************************************)

IntSigns == {<<>>, <<45>>, <<43>>}

IntBodies ==
    {S("30"), S("3.7"), S("1e3"), S("1e999"), S("1e-999"), S("inf"), S("Infinity"), S("nan"),
     S("abc"), S(".5"), S("1_0"), S("1__0"), S("12 mins"), S("0")}

IntPaddings == {<<>>, <<32>>}

IntTexts == {pad \o sign \o body \o pad : pad \in IntPaddings, sign \in IntSigns, body \in IntBodies}

IntCells ==
    {VStr(t) : t \in IntTexts}
    \cup {VNone, Txt(""), Txt("  "), VInt(0), VInt(30), VInt(-5), VBool(TRUE), VBool(FALSE),
          VFloat(7, 2), VFloat(-7, 2), VFloat(30, 1), FloatInf, FloatNegInf, FloatNaN,
          VTime(1800), VDate(20240115), VDateTime(20240115, 0)}

CallIntCoercer ==
    /\ helper = <<>>
    /\ \E value \in IntCells : helper' = <<[fn |-> "_parse_int", value |-> value]>>
    /\ UNCHANGED <<parser_vars, earlier, ret>>

\* _parse_int returns an int or None, or raises.
ReturnInt ==
    /\ helper # <<>>
    /\ helper[1].fn = "_parse_int"
    /\ ret = <<>>
    /\ ret' = <<parse_int(helper[1].value)>>
    /\ UNCHANGED <<parser_vars, earlier, helper>>

NextInt ==
    \/ CallIntCoercer
    \/ ReturnInt

SpecInt == Init /\ [][NextInt]_vars

(***************************************************************************)
(* The construction of the parser: __init__ fills _alias_to_canonical one  *)
(* assignment at a time, and the resolver is then called on the aliases.   *)
(***************************************************************************)

\* The pairs <<canonical, alias>> of the first k fields of HEADER_ALIASES,
\* in the order the two loops of __init__ visit them.
RECURSIVE AliasSequence(_)
AliasSequence(k) ==
    IF k = 0 THEN <<>>
    ELSE AliasSequence(k - 1)
         \o [j \in 1..Len(HEADER_ALIASES[k][2]) |-> <<HEADER_ALIASES[k][1], HEADER_ALIASES[k][2][j]>>]

ALIAS_ASSIGNMENTS == AliasSequence(Len(HEADER_ALIASES))

\* d[key] = value on the dict d, a function on its keys.
AliasPut(d, key, value) ==
    [k \in DOMAIN d \cup {key} |-> IF k = key THEN value ELSE d[k]]

\* RosterExcelParser() is called: self._alias_to_canonical = {}.
InitBuild ==
    /\ kind = "none"
    /\ sheet = <<>>
    /\ alias_to_canonical = <<>>
    /\ pc = "init"
    /\ headers = <<>>
    /\ ri = 1
    /\ data = <<>>
    /\ di = 1
    /\ entries = <<>>
    /\ issues = <<>>
    /\ outcome = "none"
    /\ earlier = <<>>
    /\ helper = <<[fn |-> "__init__", next |-> 1]>>
    /\ ret = <<>>

\* One pass of the inner loop of __init__.
AssignAlias ==
    /\ pc = "init"
    /\ helper[1].next <= Len(ALIAS_ASSIGNMENTS)
    /\ alias_to_canonical'
           = AliasPut(alias_to_canonical,
                      normalize_header(VStr(ALIAS_ASSIGNMENTS[helper[1].next][2])).v.s,
                      S(ALIAS_ASSIGNMENTS[helper[1].next][1]))
    /\ helper' = <<[fn |-> "__init__", next |-> helper[1].next + 1]>>
    /\ UNCHANGED <<kind, sheet, pc, headers, ri, data, di, entries, issues, outcome,
                 earlier, ret>>

\* __init__ returns.
FinishInit ==
    /\ pc = "init"
    /\ helper[1].next > Len(ALIAS_ASSIGNMENTS)
    /\ pc' = "idle"
    /\ helper' = <<>>
    /\ UNCHANGED <<kind, sheet, alias_to_canonical, headers, ri, data, di, entries, issues,
                 outcome, earlier, ret>>

\* _normalize_headers is entered with a row whose one header is an alias of
\* the table, as listed.
CallResolverOnAlias ==
    /\ pc = "idle"
    /\ helper = <<>>
    /\ \E n \in 1..Len(ALIAS_ASSIGNMENTS) :
           helper' = <<[fn |-> "_normalize_headers",
                        row |-> << <<VStr(ALIAS_ASSIGNMENTS[n][2]), Txt("x")>>,
                                   <<VStr(ROW_KEY), VInt(2)>> >>]>>
    /\ UNCHANGED <<parser_vars, earlier, ret>>

NextBuild ==
    \/ AssignAlias
    \/ FinishInit
    \/ CallResolverOnAlias
    \/ ReturnHeaders

SpecBuild == InitBuild /\ [][NextBuild]_vars

(***************************************************************************)
(* The date coercer called on its own, on texts written from three numbers *)
(* and on cells that are not dates.                                        *)
(***************************************************************************)

DateNumbers == {0, 1, 2, 12, 13, 29, 30, 31}

DateYears == {2023, 2024}

\* "-", "/" and "."
DateSeparators == {45, 47, 46}

\* A day or month as written: "7" or "07".
NumberText(n, padded) == IF padded THEN PadText(n, 2) ELSE NatText(n)

\* The text a<sep>b<sep>yyyy, or yyyy<sep>a<sep>b when the year is first.
WrittenDate(a, b, y, sep, year_first, padded) ==
    IF year_first
    THEN PadText(y, 4) \o <<sep>> \o NumberText(a, padded) \o <<sep>> \o NumberText(b, padded)
    ELSE NumberText(a, padded) \o <<sep>> \o NumberText(b, padded) \o <<sep>> \o PadText(y, 4)

DateTexts ==
    {WrittenDate(a, b, y, sep, year_first, padded) :
        a \in DateNumbers, b \in DateNumbers, y \in DateYears, sep \in DateSeparators,
        year_first \in BOOLEAN, padded \in BOOLEAN}

\* Texts that no format of the list matches.
OtherTexts ==
    {S("tomorrow"), S("2024-01"), S("15/01/24"), S("2024-01-15 00:00:00"), S("Jan 5 2024"),
     S(" n/a "), S("2024/1/2/3"), S("1-2/2024")}

DateCells ==
    {VStr(t) : t \in DateTexts \cup OtherTexts}
    \cup {VStr(<<32>> \o S("01/02/2024") \o <<32>>), VStr(<<>>), VStr(<<32, 32>>), VNone,
          VDate(20240201), VDateTime(20240201, 3600), VInt(45000), VBool(TRUE), VTime(3600)}

\* _parse_date is entered on a cell.
CallDateCoercer ==
    /\ helper = <<>>
    /\ \E value \in DateCells : helper' = <<[fn |-> "_parse_date", value |-> value]>>
    /\ UNCHANGED <<parser_vars, earlier, ret>>

\* _parse_date returns a date or None, or raises.
ReturnDate ==
    /\ helper # <<>>
    /\ helper[1].fn = "_parse_date"
    /\ ret = <<>>
    /\ ret' = <<parse_date(helper[1].value)>>
    /\ UNCHANGED <<parser_vars, earlier, helper>>

NextDate ==
    \/ CallDateCoercer
    \/ ReturnDate

SpecDate == Init /\ [][NextDate]_vars

(***************************************************************************)
(* Properties                                                              *)
(***************************************************************************)

\* The row loop is running or has run to its end: both file-level checks passed.
InRowLoop == pc = "rows" \/ (pc = "done" /\ data # <<>> /\ di > Len(data))

\* The entry point has returned after its row loop.
RowsDone == pc = "done" /\ data # <<>> /\ di > Len(data)

EntriesOfRow(r) == {e \in 1..Len(entries) : entries[e].excel_row = r}

ErrorsOfRow(r) == {e \in 1..Len(issues) : issues[e].row = r /\ issues[e].severity = "error"}

WarningsOfRow(r) == {e \in 1..Len(issues) : issues[e].row = r /\ issues[e].severity = "warning"}

\* C1: in a batch that passed the file-level checks every row already handled
\* gave either one record, no error and at most two warnings, or no record,
\* one error and no warning; so the records and the error issues together
\* number the rows handled.
C1_RowYieldsRecordOrError ==
    InRowLoop =>
        /\ \A r \in 1..(di - 1) :
               \/ /\ Cardinality(EntriesOfRow(RealRow(data[r]))) = 1
                  /\ ErrorsOfRow(RealRow(data[r])) = {}
                  /\ Cardinality(WarningsOfRow(RealRow(data[r]))) <= 2
               \/ /\ EntriesOfRow(RealRow(data[r])) = {}
                  /\ Cardinality(ErrorsOfRow(RealRow(data[r]))) = 1
                  /\ WarningsOfRow(RealRow(data[r])) = {}
        /\ Len(entries) + Cardinality({e \in 1..Len(issues) : issues[e].severity = "error"}) = di - 1

\* A batch of two rows, one of them with an unparsable date, has returned
\* one record and one INVALID_DATE issue.
C1_Witness ==
    /\ RowsDone
    /\ Len(data) = 2
    /\ Len(entries) = 1
    /\ Len(issues) = 1
    /\ issues[1].code = "INVALID_DATE"

\* The records a call gave for the row at sheet position r, in order.
RecordsAt(ents, r) == SelectSeq(ents, LAMBDA e : e.excel_row = r)

\* The issues a call gave for the row at sheet position r, in order.
IssuesAt(iss, r) == SelectSeq(iss, LAMBDA e : e.row = r)

\* Both calls of a pair ran their row loop to its end.
BothRowsDone ==
    /\ RowsDone
    /\ earlier # <<>>
    /\ earlier[1].data # <<>>
    /\ earlier[1].di > Len(earlier[1].data)

\* C2: when two batches both pass the file-level checks, a row that is in
\* both (same keys, same cell values, same position) gives the same records
\* and the same issues in both, whatever the other rows are.
C2_RowOutcomeIndependent ==
    BothRowsDone =>
        \A a \in 1..Len(data), b \in 1..Len(earlier[1].data) :
            data[a] = earlier[1].data[b] =>
                /\ RecordsAt(entries, RealRow(data[a]))
                       = RecordsAt(earlier[1].entries, RealRow(data[a]))
                /\ IssuesAt(issues, RealRow(data[a]))
                       = IssuesAt(earlier[1].issues, RealRow(data[a]))

\* Two batches share their second row, which is accepted in both, while the
\* first row is rejected in one batch and accepted in the other.
C2_Witness ==
    /\ BothRowsDone
    /\ Len(data) = 2
    /\ Len(earlier[1].data) = 2
    /\ data[2] = earlier[1].data[2]
    /\ Len(entries) = 1
    /\ entries[1].excel_row = 3
    /\ Len(earlier[1].entries) = 2

\* C3: every call returns a (result, issues) pair: no exception raised
\* during required-column validation or row parsing reaches the caller.
C3_AlwaysReturns == pc = "done" => outcome = "returned"

\* C4: a call on an empty row sequence returns no record and exactly one
\* issue: an error, EMPTY_FILE, row 0.
C4_EmptyFileIssue ==
    (pc = "done" /\ data = <<>>) =>
        /\ outcome = "returned"
        /\ entries = <<>>
        /\ Len(issues) = 1
        /\ issues[1].severity = "error"
        /\ issues[1].code = "EMPTY_FILE"
        /\ issues[1].row = 0

\* A sheet with a header row and one blank row was read to an empty row
\* sequence and the call has returned.
C4_Witness == pc = "done" /\ data = <<>> /\ Len(sheet) = 2 /\ outcome = "returned"

\* The keys of the first row after header resolution.
FirstRowKeys == DictKeys(normalize_headers(alias_to_canonical, data[1]).d)

\* The required fields of the entry point called that the first row lacks,
\* in declaration order.
FirstRowLacks ==
    SelectSeq(RequiredKeys(kind), LAMBDA f : S(f) \notin FirstRowKeys)

\* The header keys of the first row resolve, and at least one required field
\* is lacking.
LacksRequired ==
    /\ data # <<>>
    /\ normalize_headers(alias_to_canonical, data[1]).exc = "none"
    /\ FirstRowLacks # <<>>

\* C5: when the first row's resolved keys lack a required field, the call
\* returns no record and exactly one issue, error, MISSING_REQUIRED_COLUMNS,
\* row 0, whose message lists exactly the lacking fields in declaration
\* order; and the row loop has parsed no row.
C5_MissingRequiredColumns ==
    (pc = "done" /\ LacksRequired) =>
        /\ outcome = "returned"
        /\ entries = <<>>
        /\ di = 1
        /\ Len(issues) = 1
        /\ issues[1].severity = "error"
        /\ issues[1].code = "MISSING_REQUIRED_COLUMNS"
        /\ issues[1].row = 0
        /\ issues[1].message = S("Missing required columns: ") \o JoinKeys(FirstRowLacks)

\* The roster entry point was called on a sheet that has every required
\* column but the start time, and has returned.
C5_Witness ==
    /\ pc = "done"
    /\ kind = "roster"
    /\ LacksRequired
    /\ FirstRowLacks = <<"start_time">>

\* C6: the issues are in row order and so are the records: an issue or
\* record of an earlier row is earlier in its list, whatever the severities.
C6_RowOrder ==
    /\ \A a, b \in 1..Len(issues) : a < b => issues[a].row <= issues[b].row
    /\ \A a, b \in 1..Len(entries) : a < b => entries[a].excel_row < entries[b].excel_row
    /\ \A a \in 1..Len(issues) : issues[a].row # 0 =>
           \E r \in 1..(di - 1) : RealRow(data[r]) = issues[a].row

\* An error of sheet row 2 is followed by a warning of sheet row 3, not
\* grouped by severity, in a returned batch.
C6_Witness ==
    /\ RowsDone
    /\ Len(issues) = 2
    /\ issues[1].severity = "error" /\ issues[1].row = 2
    /\ issues[2].severity = "warning" /\ issues[2].row = 3
    /\ Len(entries) = 1

\* The data row r was read from the sheet row at the position it carries.
ReadFromItsPosition(r) ==
    /\ RealRow(data[r]) \in 2..Len(sheet)
    /\ ReadOneRow(<<>>, headers, sheet[RealRow(data[r])], RealRow(data[r])) = <<data[r]>>

\* The outcome of the row parser of the entry point on data row r.
OutcomeOfRow(r) == ParseRowOf(kind, alias_to_canonical, data[r], RealRow(data[r]))

FILE_LEVEL_CODES == {"EMPTY_FILE", "MISSING_REQUIRED_COLUMNS"}

\* C7: every record and every row-level issue carries the 1-based sheet
\* position of the row that produced it, blank rows counted, and an issue
\* has row 0 exactly when it is EMPTY_FILE or MISSING_REQUIRED_COLUMNS.
C7_OriginalRowPosition ==
    /\ \A r \in 1..Len(data) : ReadFromItsPosition(r)
    /\ \A e \in 1..Len(entries) :
           \E r \in 1..(di - 1) :
               /\ entries[e].excel_row = RealRow(data[r])
               /\ OutcomeOfRow(r).exc = "none"
               /\ OutcomeOfRow(r).entry = entries[e]
    /\ \A e \in 1..Len(issues) :
           /\ issues[e].row = 0 <=> issues[e].code \in FILE_LEVEL_CODES
           /\ issues[e].row # 0 =>
                  \E r \in 1..(di - 1) :
                      /\ issues[e].row = RealRow(data[r])
                      /\ OutcomeOfRow(r).exc # "none" \/ issues[e].severity = "warning"

\* A sheet with a blank row at position 2 and an accepted row after it: the
\* record has row 3, and the call has returned.
C7_Witness ==
    /\ RowsDone
    /\ Len(sheet) = 3
    /\ Len(data) = 1
    /\ issues = <<>>
    /\ Len(entries) = 1 /\ entries[1].excel_row = 3

\* The row sequence is not empty and its first row has every required column.
PassesFileChecks ==
    /\ data # <<>>
    /\ validate_headers(alias_to_canonical, data, RequiredKeys(kind)).exc = "none"
    /\ validate_headers(alias_to_canonical, data, RequiredKeys(kind)).is_valid

\* The row parser raised something other than ParseIssueError on data row r.
UnexpectedFailure(r) == OutcomeOfRow(r).exc \notin {"none", "ParseIssueError"}

\* C8: a row whose parsing raised an unexpected exception gives no record
\* and exactly one issue, error, ROW_PARSE_ERROR, with the row's position
\* and str(e) as message; the loop goes on to the last row and returns.
C8_RowParseError ==
    /\ \A r \in 1..(di - 1) :
           UnexpectedFailure(r) =>
               /\ EntriesOfRow(RealRow(data[r])) = {}
               /\ IssuesAt(issues, RealRow(data[r]))
                      = <<ParseIssue("error", "ROW_PARSE_ERROR", OutcomeOfRow(r).msg,
                                     RealRow(data[r]), VNone, VNone)>>
    /\ (pc = "done" /\ PassesFileChecks) => (di > Len(data) /\ outcome = "returned")

\* An employee row with name, email and role whose start date fails date
\* coercion is followed by an accepted row: one ROW_PARSE_ERROR at row 2
\* with the coercer's message, one record of row 3.
C8_Witness ==
    /\ RowsDone
    /\ kind = "employee"
    /\ Len(data) = 2
    /\ UnexpectedFailure(1)
    /\ Len(issues) = 1
    /\ issues[1].code = "ROW_PARSE_ERROR"
    /\ issues[1].row = 2
    /\ issues[1].message = S("Unable to parse date: 01.13.2023")
    /\ Len(entries) = 1
    /\ entries[1].excel_row = 3

\* The canonical row of data row r.
NormalizedRow(r) == normalize_headers(alias_to_canonical, data[r]).d

\* The error a roster row must give by the rule "an absent value is
\* MISSING_REQUIRED_FIELD, a failed coercion is INVALID_EMAIL, INVALID_DATE
\* or INVALID_TIME, each naming its column", fields taken in the order
\* email, date, start time, end time; <<>> when all four are fine.
ExpectedRowError(n) ==
    IF get_string(DictGet(n, Field.employee_email)).t = "none"
    THEN <<"MISSING_REQUIRED_FIELD", Field.employee_email>>
    ELSE IF ~ValidEmail(get_string(DictGet(n, Field.employee_email)).s)
    THEN <<"INVALID_EMAIL", Field.employee_email>>
    ELSE IF parse_date(DictGet(n, Field.date)).exc # "none"
    THEN <<"INVALID_DATE", Field.date>>
    ELSE IF parse_date(DictGet(n, Field.date)).v.t = "none"
    THEN <<"MISSING_REQUIRED_FIELD", Field.date>>
    ELSE IF parse_time(DictGet(n, Field.start_time)).exc # "none"
    THEN <<"INVALID_TIME", Field.start_time>>
    ELSE IF parse_time(DictGet(n, Field.start_time)).v.t = "none"
    THEN <<"MISSING_REQUIRED_FIELD", Field.start_time>>
    ELSE IF parse_time(DictGet(n, Field.end_time)).exc # "none"
    THEN <<"INVALID_TIME", Field.end_time>>
    ELSE IF parse_time(DictGet(n, Field.end_time)).v.t = "none"
    THEN <<"MISSING_REQUIRED_FIELD", Field.end_time>>
    ELSE <<>>

\* C9: a handled roster row whose keys resolve and which has an absent or
\* uncoercible required value gives one issue whose code tells absence from failed coercion and whose
\* column names the field.
C9_ErrorCodes ==
    (kind = "roster" /\ InRowLoop) =>
        \A r \in 1..(di - 1) :
            (/\ normalize_headers(alias_to_canonical, data[r]).exc = "none"
             /\ ExpectedRowError(NormalizedRow(r)) # <<>>) =>
                /\ Len(IssuesAt(issues, RealRow(data[r]))) = 1
                /\ IssuesAt(issues, RealRow(data[r]))[1].code
                       = ExpectedRowError(NormalizedRow(r))[1]
                /\ IssuesAt(issues, RealRow(data[r]))[1].column
                       = VStr(ExpectedRowError(NormalizedRow(r))[2])

RecordProduced == ret # <<>> /\ helper[1].fn = "_parse_roster_row" /\ ret[1].exc = "none"

\* The seconds of a shift by the rule "(24:00 - start) + end when overnight,
\* end - start otherwise".
ShiftSeconds(entry) ==
    IF entry.is_overnight THEN (24 * 3600 - entry.start_time) + entry.end_time
    ELSE entry.end_time - entry.start_time

\* h hundredths of an hour is secs seconds rounded to 2 decimal places of an
\* hour: no hundredth is nearer.
IsRoundedHours(h, secs) == 2 * Abs(100 * secs - 3600 * h) <= 3600

\* C11: duration_hours of every record the row parser produces is the
\* shift's seconds, a day added when overnight, in hours rounded to 2
\* decimal places.
C11_DurationHours ==
    RecordProduced =>
        /\ duration_hours(ret[1].entry).exc = "none"
        /\ IsRoundedHours(duration_hours(ret[1].entry).v, ShiftSeconds(ret[1].entry))

\* C12: duration_hours of every record the row parser produces is at least
\* 0 and below 24 hours.
C12_DurationRange ==
    RecordProduced =>
        /\ duration_hours(ret[1].entry).exc = "none"
        /\ duration_hours(ret[1].entry).v >= 0
        /\ duration_hours(ret[1].entry).v < 2400

\* C13: net_hours of every record the row parser produces is at least 0.
C13_NetHoursNonNegative ==
    RecordProduced =>
        /\ net_hours(ret[1].entry).exc = "none"
        /\ net_hours(ret[1].entry).v >= 0

BreakMinutes(entry) ==
    (IF entry.meal_break_duration.t = "none" THEN 0 ELSE entry.meal_break_duration.n)
    + (IF entry.rest_breaks_duration.t = "none" THEN 0 ELSE entry.rest_breaks_duration.n)

\* C14: net_hours is duration_hours minus (meal minutes + rest minutes) / 60,
\* rounded to 2 places; an absent duration counts as 0 and a present one is
\* subtracted whatever its flag says.  When duration_hours has no value,
\* net_hours has none either, with the same failure.
C14_NetHours ==
    RecordProduced =>
        IF duration_hours(ret[1].entry).exc # "none"
        THEN net_hours(ret[1].entry) = duration_hours(ret[1].entry)
        ELSE /\ net_hours(ret[1].entry).exc = "none"
             /\ 2 * Abs(100 * (36 * duration_hours(ret[1].entry).v - 60 * BreakMinutes(ret[1].entry))
                        - 3600 * net_hours(ret[1].entry).v) <= 3600

C14_Witness ==
    /\ RecordProduced
    /\ ~ret[1].entry.has_meal_break
    /\ ret[1].entry.meal_break_duration = VInt(30)
    /\ ret[1].entry.rest_breaks_duration = VNone
    /\ duration_hours(ret[1].entry) = Return(800)
    /\ net_hours(ret[1].entry) = Return(750)

HelperNormalized == normalize_headers(alias_to_canonical, helper[1].row).d

WarningsCoded(warnings, code) ==
    {n \in 1..Len(warnings) : warnings[n].code = code}

\* What the row parser must do about one break flag and its duration on the
\* row it was given: a flag that coerces to true with a duration that coerces
\* to absent gives a record and exactly one warning with the code, naming
\* the duration column and the row; a false flag with an absent duration
\* gives no issue with the code.
BreakFlagHandled(flag_field, duration_field, code) ==
    parse_int(DictGet(HelperNormalized, duration_field)) = Return(VNone) =>
        IF parse_boolean(DictGet(HelperNormalized, flag_field))
        THEN /\ ret[1].exc = "none"
             /\ Cardinality(WarningsCoded(ret[1].warnings, code)) = 1
             /\ \A n \in WarningsCoded(ret[1].warnings, code) :
                    /\ ret[1].warnings[n].severity = "warning"
                    /\ ret[1].warnings[n].column = VStr(duration_field)
                    /\ ret[1].warnings[n].row = RealRow(helper[1].row)
        ELSE /\ WarningsCoded(ret[1].warnings, code) = {}
             /\ ret[1].issue.code # code

IsSeparator(c) == IsSpace(c) \/ IsSpace(NfkcChar(c)) \/ IsNoise(c) \/ IsNoise(NfkcChar(c))

\* The words of a header, in half-width lower case: what is left of it when
\* case, width, whitespace runs and noise punctuation are disregarded.
RECURSIVE HeaderWords(_, _)
HeaderWords(t, word) ==
    IF t = <<>> THEN (IF word = <<>> THEN <<>> ELSE <<word>>)
    ELSE IF IsSeparator(Head(t))
    THEN (IF word = <<>> THEN <<>> ELSE <<word>>) \o HeaderWords(Tail(t), <<>>)
    ELSE HeaderWords(Tail(t), Append(word, LowerChar(NfkcChar(Head(t)))))

HeadersResolved == ret # <<>> /\ helper[1].fn = "_normalize_headers"

\* The key the resolver stored the header's value under.
ResolvedKey == ret[1].d[1][1]

TimeCoerced == ret # <<>> /\ helper[1].fn = "_parse_time"

\* C17: every text of a clock time (24-hour, 12-hour with AM or PM, with or
\* without seconds, and the bare hour "h", "hAM", "h PM") coerces to that
\* clock time, so all of them give the same value.
C17_SameClockTime ==
    TimeCoerced =>
        \A hour \in ClockHours, minute \in ClockMinutes, second \in ClockSeconds :
            (helper[1].value.t = "str" /\ helper[1].value.s \in ClockTexts(hour, minute, second))
                => ret[1] = Return(VTime(hour * 3600 + minute * 60 + second))

C17_Witness ==
    /\ TimeCoerced
    /\ helper[1].value = Txt("12:05 AM")
    /\ ret[1] = Return(VTime(300))

\* C18: a text of two time-like tokens joined by '-', '~', a full-width
\* tilde, an en-dash, an em-dash or "to" fails with the time-range message,
\* which quotes the text and asks for separate Start Time and End Time columns.
C18_TimeRangeRejected ==
    (TimeCoerced /\ helper[1].value.t = "str" /\ helper[1].value.s \in RangeTexts) =>
        ret[1] = Raise("ValueError",
                       S("Time range detected: '") \o helper[1].value.s
                       \o S("'. Please use separate 'Start Time' and 'End Time' columns."))

\* C19: a numeric value never fails and gives the clock time of the value
\* as a fraction of a day, floored to whole seconds, within one day.
C19_NumericTime ==
    (TimeCoerced /\ helper[1].value.t \in {"int", "float"}) =>
        /\ ret[1].exc = "none"
        /\ helper[1].value.t = "int" => ret[1].v = VTime((helper[1].value.n * 86400) % 86400)
        /\ helper[1].value.t = "float" =>
               /\ helper[1].value.d > 0
               /\ ret[1].v = VTime(((helper[1].value.n * 86400) \div helper[1].value.d) % 86400)

StatisticsRead == pc = "done" /\ kind = "roster" /\ ret # <<>>

\* Two addresses that differ at most in the case of their letters.
SameAddress(a, b) ==
    Len(a) = Len(b) /\ \A n \in 1..Len(a) : UpperChar(a[n]) = UpperChar(b[n])

\* The accepted records whose address no earlier record has, case aside.
FirstOfEmployee ==
    {n \in 1..Len(entries) :
        \A m \in 1..(n - 1) : ~SameAddress(entries[m].employee_email, entries[n].employee_email)}

\* C20: unique_employees is the number of distinct addresses of the accepted
\* records, compared without regard to case; for a non-empty result it is
\* at least 1 and at most total_shifts.
C20_UniqueEmployees ==
    StatisticsRead =>
        /\ ret[1].unique_employees = Cardinality(FirstOfEmployee)
        /\ ret[1].total_shifts = Len(entries)
        /\ entries # <<>> => (ret[1].unique_employees >= 1
                              /\ ret[1].unique_employees <= ret[1].total_shifts)

C20_Witness ==
    /\ StatisticsRead
    /\ Len(entries) = 3
    /\ {entries[n].employee_email : n \in 1..3} = {S("John@x.com"), S("john@x.com"), S("jane@x.com")}
    /\ ret[1].unique_employees = 2

\* The sum of the records' durations in seconds, each rounded to hundredths
\* of an hour on its own.
RECURSIVE RoundedHoursSum(_)
RoundedHoursSum(ents) ==
    IF ents = <<>> THEN 0
    ELSE RoundedHoursSum(Tail(ents))
         + (CHOOSE h \in 0..2400 :
                /\ IsRoundedHours(h, ShiftSeconds(Head(ents)))
                /\ (2 * Abs(100 * ShiftSeconds(Head(ents)) - 3600 * h) = 3600 => h % 2 = 0))

\* C21: the aggregates of a roster result are functions of the accepted
\* records: their number, the least and the greatest date, the sum of their
\* duration_hours; None, None, 0, 0.00 and 0 when there is no record; and
\* reading them never fails.
C21_Aggregates ==
    StatisticsRead =>
        /\ ret[1].total_shifts = Len(entries)
        /\ ret[1].total_hours.exc = "none"
        /\ ret[1].total_hours.v = RoundedHoursSum(entries)
        /\ IF entries = <<>>
           THEN /\ ret[1].week_start_date = VNone
                /\ ret[1].week_end_date = VNone
                /\ ret[1].total_shifts = 0
                /\ ret[1].total_hours = Return(0)
                /\ ret[1].unique_employees = 0
           ELSE /\ ret[1].week_start_date.t = "date"
                /\ ret[1].week_end_date.t = "date"
                /\ \E n \in 1..Len(entries) : entries[n].date = ret[1].week_start_date.n
                /\ \E n \in 1..Len(entries) : entries[n].date = ret[1].week_end_date.n
                /\ \A n \in 1..Len(entries) :
                       /\ ret[1].week_start_date.n <= entries[n].date
                       /\ entries[n].date <= ret[1].week_end_date.n

EmployeeRowParsed == ret # <<>> /\ helper[1].fn = "_parse_employee_row"

\* A cell that is absent or blank.
IsBlankCell(v) == v.t = "none" \/ (v.t = "str" /\ \A n \in 1..Len(v.s) : IsSpace(v.s[n]))

\* The required employee columns in the order they are checked, with the
\* position of their cell in the row.
EMPLOYEE_CHECKS == << <<"name", 1>>, <<"email", 2>>, <<"role", 3>> >>

\* The checks whose cell is absent or blank.
BlankChecks == {k \in 1..3 : IsBlankCell(helper[1].row[EMPLOYEE_CHECKS[k][2]][2])}

\* C22: the employee row parser requires name, email and role in that order;
\* the first that is absent or blank gives one MISSING_REQUIRED_FIELD error
\* naming its column and no record; the email is not syntax-checked, so a
\* row with an address the roster parser would reject is accepted.
C22_EmployeeRequiredFields ==
    EmployeeRowParsed =>
        /\ BlankChecks # {} =>
               /\ ret[1].exc = "ParseIssueError"
               /\ ret[1].entry = NoEntry
               /\ ret[1].issue.code = "MISSING_REQUIRED_FIELD"
               /\ ret[1].issue.severity = "error"
               /\ ret[1].issue.row = 2
               /\ ret[1].issue.column
                      = Txt(EMPLOYEE_CHECKS[CHOOSE k \in BlankChecks : \A k2 \in BlankChecks : k <= k2][1])
        /\ (BlankChecks = {} /\ parse_date(helper[1].row[4][2]).exc = "none") =>
               /\ ret[1].exc = "none"
               /\ ret[1].entry.email = Strip(PyStr(helper[1].row[2][2]))

C22_Witness ==
    /\ EmployeeRowParsed
    /\ helper[1].row[2][2] = Txt("not-an-email")
    /\ ~ValidEmail(S("not-an-email"))
    /\ ret[1].exc = "none"
    /\ ret[1].entry.email = S("not-an-email")

\* The state of the row at sheet position r within the invocation.
RowState(r) ==
    IF EntriesOfRow(r) # {} THEN "accepted"
    ELSE IF ErrorsOfRow(r) # {} THEN "rejected"
    ELSE "pending"

\* The sheet positions of the rows read_excel delivered.
RowPositions == {RealRow(data[k]) : k \in 1..Len(data)}

\* The batch was rejected as a file: no record, one file-level issue.
FileRejected ==
    entries = <<>> /\ Len(issues) = 1 /\ issues[1].code \in FILE_LEVEL_CODES

\* The state of the batch once the invocation has ended.
BatchEnded ==
    /\ outcome = "returned"
    /\ FileRejected <=> (data = <<>> \/ FirstRowLacks # <<>>)
    /\ FileRejected => \A r \in RowPositions : RowState(r) = "pending"
    /\ ~FileRejected =>
           \A r \in RowPositions :
               /\ RowState(r) # "pending"
               /\ ~(EntriesOfRow(r) # {} /\ ErrorsOfRow(r) # {})
               /\ Cardinality(EntriesOfRow(r)) + Cardinality(ErrorsOfRow(r)) = 1

\* C23: within one invocation a row leaves pending once, after the rows
\* before it, and keeps its state; the invocation ends with the batch
\* file-rejected, completed with issues or completed clean; file-rejected
\* exactly when there is no row or a required column is missing, and then
\* every row is still pending.
C23_RowAndBatchStates ==
    /\ [][/\ \A r \in RowPositions :
                 /\ RowState(r) # "pending" => RowState(r)' = RowState(r)
                 /\ (RowState(r) = "pending" /\ RowState(r)' # "pending") =>
                        \A r2 \in RowPositions : r2 < r => RowState(r2) # "pending"
          /\ Cardinality({r \in RowPositions :
                              RowState(r) = "pending" /\ RowState(r)' # "pending"}) <= 1
         ]_vars
    /\ [](pc = "done" => BatchEnded)

RosterRowParsed == ret # <<>> /\ helper[1].fn = "_parse_roster_row"

\* A coercer's outcome that makes its required field defective: it raised,
\* or it returned None.
Defective(coerced) == coerced.exc # "none" \/ coerced.v.t = "none"

REQUIRED_ORDER == <<"employee_email", "date", "start_time", "end_time">>

\* The outcomes of the coercers on the required cells of a normalised row,
\* in the order of the checks; the email's is its string.
RequiredOutcomes(normalized) ==
    << Return(get_string(DictGet(normalized, Field.employee_email))),
       parse_date(DictGet(normalized, Field.date)),
       parse_time(DictGet(normalized, Field.start_time)),
       parse_time(DictGet(normalized, Field.end_time)) >>

\* The required fields whose cell is defective.
DefectiveFields(outcomes) ==
    {k \in 1..4 : Defective(outcomes[k]) \/ (k = 1 /\ ~ValidEmail(outcomes[1].v.s))}

\* What the row parser must return when the first defective field is the
\* one at position first: no record, no warning, and that field's error.
FirstDefectReported(result, outcomes, first) ==
    /\ result.exc # "none"
    /\ result.entry = NoEntry
    /\ result.warnings = <<>>
    /\ IF outcomes[first].exc \in {"none", "ValueError"}
       THEN /\ result.exc = "ParseIssueError"
            /\ result.issue.severity = "error"
            /\ result.issue.column = Txt(REQUIRED_ORDER[first])
            /\ result.issue.code
                   \in {"MISSING_REQUIRED_FIELD",
                        <<"INVALID_EMAIL", "INVALID_DATE", "INVALID_TIME", "INVALID_TIME">>[first]}
       ELSE result.exc = outcomes[first].exc

\* C24: a row with defective required fields gives no record, no warning
\* and one error, that of the first defective field in the order email,
\* date, start time, end time; the optional fields are not coerced.
C24_FirstDefectWins ==
    RosterRowParsed =>
        \A outcomes \in {RequiredOutcomes(HelperNormalized)} :
            \A defects \in {DefectiveFields(outcomes)} :
                defects # {} =>
                    FirstDefectReported(ret[1], outcomes,
                                        CHOOSE k \in defects : \A k2 \in defects : k <= k2)

C24_Witness ==
    /\ RosterRowParsed
    /\ \A normalized \in {HelperNormalized} :
           /\ DictGet(normalized, Field.employee_email) = Txt("not-an-email")
           /\ DictGet(normalized, Field.date) = Txt("bad-date")
           /\ DictGet(normalized, Field.meal_break_duration) = Txt("inf")
    /\ ret[1].exc = "ParseIssueError"
    /\ ret[1].issue.code = "INVALID_EMAIL"

IntCoerced == ret # <<>> /\ helper[1].fn = "_parse_int"

\* C25: integer coercion never fails: for every cell value it returns an
\* integer or None.
C25_IntNeverFails ==
    IntCoerced =>
        /\ ret[1].exc = "none"
        /\ ret[1].v.t \in {"none", "int", "bool"}

\* The canonical fields an alias text is listed under.
ListedUnder(alias) ==
    {ALIAS_ASSIGNMENTS[n][1] : n \in {m \in 1..Len(ALIAS_ASSIGNMENTS) : ALIAS_ASSIGNMENTS[m][2] = alias}}

\* C26: building the resolver never replaces an entry by another canonical
\* field, and every alias of the table resolves to the field it is listed
\* for.
C26_AliasesDisjoint ==
    /\ [][\A key \in DOMAIN alias_to_canonical :
              alias_to_canonical'[key] = alias_to_canonical[key]]_vars
    /\ [](HeadersResolved =>
              /\ ret[1].exc = "none"
              /\ \A canonical \in ListedUnder(helper[1].row[1][1].s) : ResolvedKey = S(canonical))
    /\ [](pc = "idle" => alias_to_canonical = BuildAliasMap)

C26_Witness ==
    /\ HeadersResolved
    /\ helper[1].row[1][1].s = S("e-mail")
    /\ S("e mail") \in DOMAIN alias_to_canonical
    /\ ResolvedKey = S("email")

\* The canonical key the item at position p of a row is stored under.
CanonicalOf(row, p) == ResolveKey(alias_to_canonical, row[p][1]).v.s

\* The positions p < q of a row hold two distinct raw headers that resolve
\* to the same key, and q is the last position that resolves to it.
SharedField(row, p, q) ==
    /\ p < q
    /\ row[p][1] # row[q][1]
    /\ CanonicalOf(row, p) = CanonicalOf(row, q)
    /\ \A q2 \in (q + 1)..Len(row) : CanonicalOf(row, q2) # CanonicalOf(row, q)

\* The position of a required roster field in the order of its checks, 0
\* for any other key.
CheckPosition(key) ==
    IF \E k \in 1..4 : S(REQUIRED_ORDER[k]) = key
    THEN CHOOSE k \in 1..4 : S(REQUIRED_ORDER[k]) = key
    ELSE 0

\* The handled row r, whose keys resolve, has no defective required field
\* checked before the one at position first.
NoneDefectiveBefore(r, first) ==
    \A outcomes \in {RequiredOutcomes(NormalizedRow(r))} :
        \A k \in DefectiveFields(outcomes) : first <= k

\* C27: when two distinct raw headers of a row resolve to the same field,
\* the row's value of the field is that of the later header; so a roster
\* row with a valid value under the earlier header and an empty cell under
\* the later one passes the required-column validation and, no field
\* checked before it being defective, gives no record and one
\* MISSING_REQUIRED_FIELD error naming the field.
C27_LaterAliasWins ==
    InRowLoop =>
        \A r \in 1..(di - 1) :
            normalize_headers(alias_to_canonical, data[r]).exc = "none" =>
                \A p, q \in 1..Len(data[r]) :
                    SharedField(data[r], p, q) =>
                        /\ DictGet(NormalizedRow(r), CanonicalOf(data[r], q)) = data[r][q][2]
                        /\ (/\ kind = "roster"
                            /\ CheckPosition(CanonicalOf(data[r], q)) # 0
                            /\ data[r][p][2] # VNone
                            /\ data[r][q][2] = VNone
                            /\ NoneDefectiveBefore(r, CheckPosition(CanonicalOf(data[r], q)))) =>
                               /\ PassesFileChecks
                               /\ EntriesOfRow(RealRow(data[r])) = {}
                               /\ Len(IssuesAt(issues, RealRow(data[r]))) = 1
                               /\ IssuesAt(issues, RealRow(data[r]))[1].severity = "error"
                               /\ IssuesAt(issues, RealRow(data[r]))[1].code = "MISSING_REQUIRED_FIELD"
                               /\ IssuesAt(issues, RealRow(data[r]))[1].column
                                      = VStr(CanonicalOf(data[r], q))

\* A roster sheet with the columns "Employee Email" and "Staff Email" whose
\* one row has an address under the first and nothing under the second has
\* returned one MISSING_REQUIRED_FIELD error for employee_email.
C27_Witness ==
    /\ RowsDone
    /\ kind = "roster"
    /\ sheet[1] = TwoEmailHeader
    /\ Len(data) = 1
    /\ data[1][1][2] = John
    /\ data[1][2][2] = VNone
    /\ entries = <<>>
    /\ Len(issues) = 1
    /\ issues[1].code = "MISSING_REQUIRED_FIELD"
    /\ issues[1].column = Txt("employee_email")

DateCoerced == ret # <<>> /\ helper[1].fn = "_parse_date"

\* The calendar date of year y, month m, day d.
Ymd(y, m, d) == Return(VDate(y * 10000 + m * 100 + d))

\* A failure of the coercer.
DateFails(result) == result.exc = "ValueError"

\* What the ordered patterns give for the numbers a, b and the year y as
\* written with the separator: with the year first only Y-M-D and Y/M/D
\* apply; with the year last D/M/Y comes before M/D/Y, and D-M-Y and D.M.Y
\* are the only readings of their separators.
ReadAsWritten(result, a, b, y, sep, year_first) ==
    IF year_first
    THEN IF sep # 46 /\ ValidDate(y, a, b) THEN result = Ymd(y, a, b) ELSE DateFails(result)
    ELSE IF ValidDate(y, b, a) THEN result = Ymd(y, b, a)
    ELSE IF sep = 47 /\ ValidDate(y, a, b) THEN result = Ymd(y, a, b)
    ELSE DateFails(result)

\* C28: the date coercer gives the reading of the first pattern of the
\* list Y-M-D, D/M/Y, M/D/Y, D-M-Y, Y/M/D, D.M.Y that matches: a/b/yyyy
\* with a and b in 1..12 is day a of month b, the month-first reading is
\* given only when the day-first one is no date, and text that is not
\* blank and matches no pattern fails.
C28_DatePatternOrder ==
    DateCoerced =>
        /\ \A a, b \in DateNumbers, y \in DateYears, sep \in DateSeparators,
              year_first, padded \in BOOLEAN :
               helper[1].value = VStr(WrittenDate(a, b, y, sep, year_first, padded)) =>
                   /\ ReadAsWritten(ret[1], a, b, y, sep, year_first)
                   /\ (sep = 47 /\ ~year_first /\ a \in 1..12 /\ b \in 1..12) =>
                          ret[1] = Ymd(y, b, a)
        /\ (helper[1].value.t = "str" /\ Strip(helper[1].value.s) \in OtherTexts) =>
               /\ DateFails(ret[1])
               /\ ret[1].msg = S("Unable to parse date: ") \o Strip(helper[1].value.s)
        /\ (helper[1].value.t = "str" /\ Strip(helper[1].value.s) # <<>>) =>
               ret[1] # Return(VNone)

\* The coercer has read "01/02/2024" as 1 February 2024.
C28_Witness ==
    /\ DateCoerced
    /\ helper[1].value = Txt("01/02/2024")
    /\ ret[1] = Return(VDate(20240201))

\* The positions, in the order of the checks, of the required roster fields
\* that are no key of the canonical row.
LackingFields(normalized) ==
    {k \in 1..4 : S(REQUIRED_ORDER[k]) \notin DictKeys(normalized)}

\* The handled roster row r, whose keys resolve, lacks a required key, the
\* first lacking one being at position first of the checks, and no field
\* checked before it is defective.
LacksFirst(r, first) ==
    /\ normalize_headers(alias_to_canonical, data[r]).exc = "none"
    /\ first \in LackingFields(NormalizedRow(r))
    /\ \A k \in LackingFields(NormalizedRow(r)) : first <= k
    /\ NoneDefectiveBefore(r, first)

\* C29: only the keys of the first row decide on the file-level rejection.
\* When they resolve and cover the required fields, the batch is not
\* rejected for missing columns, all rows are handled, a later roster row
\* lacking a required key gives one MISSING_REQUIRED_FIELD error for that
\* field and no record, and the rows the row parser accepts keep their
\* record; when the first row lacks a required field the call returns one
\* MISSING_REQUIRED_COLUMNS issue and has handled no row, whatever keys the
\* later rows have.
C29_FirstRowDecides ==
    (pc = "done" /\ data # <<>> /\ normalize_headers(alias_to_canonical, data[1]).exc = "none") =>
        IF FirstRowLacks = <<>>
        THEN /\ outcome = "returned"
             /\ di > Len(data)
             /\ \A e \in 1..Len(issues) : issues[e].code # "MISSING_REQUIRED_COLUMNS"
             /\ \A r \in 2..Len(data) :
                    /\ OutcomeOfRow(r).exc = "none" =>
                           Cardinality(EntriesOfRow(RealRow(data[r]))) = 1
                    /\ kind = "roster" =>
                           \A first \in 1..4 :
                               LacksFirst(r, first) =>
                                   /\ EntriesOfRow(RealRow(data[r])) = {}
                                   /\ Len(IssuesAt(issues, RealRow(data[r]))) = 1
                                   /\ IssuesAt(issues, RealRow(data[r]))[1].code
                                          = "MISSING_REQUIRED_FIELD"
                                   /\ IssuesAt(issues, RealRow(data[r]))[1].column
                                          = Txt(REQUIRED_ORDER[first])
        ELSE /\ outcome = "returned"
             /\ di = 1
             /\ entries = <<>>
             /\ Len(issues) = 1
             /\ issues[1].code = "MISSING_REQUIRED_COLUMNS"
             /\ issues[1].row = 0

\* A roster sheet whose first row has all eight cells and whose second row
\* has only the email and the date: one record of row 2 and one
\* MISSING_REQUIRED_FIELD error of row 3 for start_time.
C29_Witness ==
    /\ RowsDone
    /\ kind = "roster"
    /\ sheet[1] = RosterHeader
    /\ Len(data) = 2
    /\ Len(data[1]) = 9
    /\ Len(data[2]) = 3
    /\ Len(entries) = 1
    /\ entries[1].excel_row = 2
    /\ Len(issues) = 1
    /\ issues[1].row = 3
    /\ issues[1].code = "MISSING_REQUIRED_FIELD"
    /\ issues[1].column = Txt("start_time")

\* The first row has only the email and the date and the second row all
\* eight cells: the batch is rejected for its missing columns.
C29_FirstRowShort ==
    /\ pc = "done"
    /\ kind = "roster"
    /\ Len(data) = 2
    /\ Len(data[1]) = 3
    /\ Len(data[2]) = 9
    /\ Len(issues) = 1
    /\ issues[1].code = "MISSING_REQUIRED_COLUMNS"

\* The records and issues a call gives for the first k rows of a batch that
\* passed the file-level checks, each row parsed on its own.
RECURSIVE RowByRow(_, _, _)
RowByRow(k, rows, n) ==
    IF n = 0 THEN [entries |-> <<>>, issues |-> <<>>, escaped |-> ""]
    ELSE HandleRow(ParseRowOf(k, BuildAliasMap, rows[n], RealRow(rows[n])), RealRow(rows[n]),
                   RowByRow(k, rows, n - 1).entries, RowByRow(k, rows, n - 1).issues)

\* C30: the entry points never change the alias map nor, once read, the
\* rows; a second call on the same parser with the same rows returns the
\* records and issues of the first, and a call that ran its row loop to the
\* end, whatever batch was parsed before, returns what its rows give one by
\* one.
C30_NoStateKept ==
    /\ [][alias_to_canonical' = alias_to_canonical]_vars
    /\ [][(pc \in {"validate", "rows"}) => (data' = data)]_vars
    /\ []((pc = "done" /\ earlier # <<>> /\ data = earlier[1].data) =>
              /\ entries = earlier[1].entries
              /\ issues = earlier[1].issues
              /\ outcome = earlier[1].outcome)
    /\ [](RowsDone =>
              /\ entries = RowByRow(kind, data, Len(data)).entries
              /\ issues = RowByRow(kind, data, Len(data)).issues)

\* The second call on the same two rows has returned the one record and the
\* one issue the first call returned.
C30_Witness ==
    /\ RowsDone
    /\ earlier # <<>>
    /\ data = earlier[1].data
    /\ Len(data) = 2
    /\ Len(entries) = 1
    /\ Len(issues) = 1
    /\ entries = earlier[1].entries
    /\ issues = earlier[1].issues

=============================================================================
